---- MODULE Spec2Model ----
(***************************************************************************)
(* FreightFlow: a state-machine model of the quotation, booking, CRM,      *)
(* vendor-contract and notification services and of the shared cache,      *)
(* authentication and eventing modules.                                    *)
(*                                                                         *)
(* Each service is modelled with its own specification (SpecQuote,         *)
(* SpecEvents, SpecBooking, SpecNotif, SpecContract, SpecLead): services   *)
(* are separate processes that share nothing but the cache and the broker. *)
(*                                                                         *)
(* Modelling conventions                                                   *)
(*  - Python None is the string "None" (Null for objects); an absent time  *)
(*    is NoTime.                                                           *)
(*  - uuid4()/generated ids are fresh names taken from a fixed list.       *)
(*  - The Redis cache is a function key -> [val, exp]; an entry is gone    *)
(*    once now >= exp.  Keys are the ':'-separated parts of the f-string   *)
(*    the code builds.                                                     *)
(*  - SQLAlchemy column defaults (Quote.status = 'DRAFT') are taken to be  *)
(*    in place on a constructed object, as the unit tests of the model     *)
(*    assert.                                                              *)
(***************************************************************************)
EXTENDS Integers, Sequences, FiniteSets, TLC

VARIABLES
    now,         \* wall clock, seconds
    clockSteps,  \* number of clock advances so far (bounded by MaxTicks)
    authEnabled, \* AuthConfig.enabled
    cache,       \* Redis: key -> [val, exp]
    published,   \* events handed to the producer, in order
    resp,        \* the last response / outcome returned to a caller
    quotes,      \* quotation service: table quotes
    rules,       \* quotation service: table pricing_rules
    posts,       \* history of the POST /quotes requests that carried an Idempotency-Key
    lookup,      \* the last pricing-rule lookup: where its result came from
    written,     \* (service, lane) pairs with a rule stored since their last lookup
    running,     \* EventConsumer._running
    position,    \* the consumer's fetch position in the partition
    committed,   \* the offset committed for the consumer group
    failed,      \* offsets whose processing failed and has not succeeded since
    delivered,   \* history of the messages handed to _process_message
    bookingsMade, \* booking service: the bookings create_booking has made, in order
    shipments,   \* booking service: the shipments confirm_booking has created
    allocated,   \* booking service: number of containers allocated so far
    wanted,      \* notifications: per user, the preferences the user has asked for
    notifCount,  \* notifications: number of notifications created
    contractCount, \* vendor service: number of contracts created
    amendmentLog, \* vendor service: the amendments create_contract_amendment returned
    leadCount,   \* CRM service: number of leads created
    customerCount, \* CRM service: number of customers created
    vendorCount, \* vendor service: number of vendors created
    ratingLog,   \* vendor service: the ratings create_vendor_rating recorded, in order
    created,     \* notifications: the notifications the event processor and bulk send made
    errorsLogged, \* notifications: number of errors process_event caught and logged
    objects,     \* object storage: storage path -> the bytes stored there
    uploaded,    \* booking service: the documents upload_document returned, in order
    transactions, \* shared database: the uses of db_transaction so far, in order
    retried, \* shared database: the calls of functions wrapped by retry_db_operation, in order
    kafkaInstalled, \* shared events: whether the Kafka client library could be imported
    _producer,   \* shared events: EventProducer._producer
    sent,        \* shared events: the events the broker has acknowledged, in order
    calls, \* per worker, the request it serves: its position and its locals
    noteObj, \* notifications service: the Notification being delivered, Null before
    loops, \* event consumer: the threads start() has created, in order, and where each is in _consume_loop
    callers, \* event consumer: where each caller of start() and stop() is
    threadRef, \* event consumer: self._thread as an index into loops, 0 for None
    consumerOpen, \* event consumer: self._consumer is not None
    stopReturned \* event consumer: a stop() has returned and no start() has been called since

vars == <<now, clockSteps, authEnabled, cache, published, resp,
          quotes, rules, posts, lookup, written,
          running, position, committed, failed, delivered,
          bookingsMade, shipments, allocated, wanted, notifCount,
          contractCount, amendmentLog, leadCount, customerCount,
          vendorCount, ratingLog, created, errorsLogged,
          objects, uploaded,
          transactions, retried,
          kafkaInstalled, _producer, sent,
          calls,
          noteObj,
          loops, callers, threadRef, consumerOpen, stopReturned>>

\* the variables of the event consumer
evVars == <<running, position, committed, failed, delivered>>

\* the variables of the quotation service
qVars == <<quotes, rules, posts, lookup, written>>

\* the variables of the booking service
bkVars == <<bookingsMade, shipments, allocated>>

\* the variables of the notification service
ntVars == <<wanted, notifCount>>

\* the variables of the vendor contract service
ctVars == <<contractCount, amendmentLog>>

\* the variables of the CRM service
ldVars == <<leadCount, customerCount>>

\* the variables of the vendor service
vdVars == <<vendorCount, ratingLog>>

\* the variables of the event processor of the notification service
epVars == <<created, errorsLogged>>

\* the variables of the document service
dcVars == <<objects, uploaded>>

\* the variables of the shared database helpers
dbVars == <<transactions, retried>>

\* the variables of the event producer
pdVars == <<kafkaInstalled, _producer, sent>>

\* the requests being served
rqVars == <<calls>>

\* the notification under delivery
dlVars == <<noteObj>>

\* the threads of the event consumer
thVars == <<loops, callers, threadRef, consumerOpen, stopReturned>>

\* what the quotation service never touches
notQuotation == <<evVars, bkVars, ntVars, ctVars, ldVars, vdVars, epVars, dcVars, dbVars, pdVars, rqVars, dlVars, thVars>>

\* what the event consumer never touches
notEvents == <<qVars, bkVars, ntVars, ctVars, ldVars, vdVars, epVars, dcVars, dbVars, pdVars, rqVars, dlVars, thVars>>

\* what the booking service never touches
notBooking == <<qVars, evVars, ntVars, ctVars, ldVars, vdVars, epVars, dcVars, dbVars, pdVars, rqVars, dlVars, thVars>>

\* what the notification service never touches
notNotifications == <<qVars, evVars, bkVars, ctVars, ldVars, vdVars, epVars, dcVars, dbVars, pdVars, rqVars, dlVars, thVars>>

\* what the contract service never touches
notContracts == <<qVars, evVars, bkVars, ntVars, ldVars, vdVars, epVars, dcVars, dbVars, pdVars, rqVars, dlVars, thVars>>

\* what the CRM service never touches
notLeads == <<qVars, evVars, bkVars, ntVars, ctVars, vdVars, epVars, dcVars, dbVars, pdVars, rqVars, dlVars, thVars>>

\* what the vendor service never touches
notVendors == <<qVars, evVars, bkVars, ntVars, ctVars, ldVars, epVars, dcVars, dbVars, pdVars, rqVars, dlVars, thVars>>

\* what the event processor never touches beyond the notification service's own state
notProcessor == <<qVars, evVars, bkVars, ctVars, ldVars, vdVars, dcVars, dbVars, pdVars, rqVars, dlVars, thVars>>

\* what the document service never touches
notDocuments == <<qVars, evVars, bkVars, ntVars, ctVars, ldVars, vdVars, epVars, dbVars, pdVars, rqVars, dlVars, thVars>>

\* what the database helpers never touch
notDatabase == <<qVars, evVars, bkVars, ntVars, ctVars, ldVars, vdVars, epVars, dcVars, pdVars, rqVars, dlVars, thVars>>

\* what the event producer never touches
notProducer == <<qVars, evVars, bkVars, ntVars, ctVars, ldVars, vdVars, epVars, dcVars, dbVars, rqVars, dlVars, thVars>>

\* what a request in flight leaves alone by itself
notRequests == <<qVars, evVars, bkVars, ntVars, ctVars, ldVars, vdVars, epVars, dcVars, dbVars, pdVars, dlVars, thVars>>

\* what the delivery of a notification never touches
notDelivery == <<qVars, evVars, bkVars, ntVars, ctVars, ldVars, vdVars, epVars, dcVars, dbVars, pdVars, rqVars, thVars>>

\* what the consumer's threads never touch
notThreads == <<qVars, evVars, bkVars, ntVars, ctVars, ldVars, vdVars, epVars, dcVars, dbVars, pdVars, rqVars, dlVars>>

None == "None"
\* Python None where an object (a dict, a model instance) is expected
Null == [is_none |-> TRUE]
NoTime == 0 - 1

\* ------------------------------------------------------------------ bounds
MaxTicks == 2
MaxQuotes == 2
MaxPosts == 3
MaxRules == 2
MaxBookings == 2
MaxLeads == 1
MaxCustomers == 2
MaxContracts == 1
MaxAmendments == 3
MaxNotifications == 2
MaxEvents == 3
MaxPollRecords == 2
MaxDeliveries == 4

\* ------------------------------------------------------- program constants
IdemTTL == 3600
QuoteCacheTTL == 300
PricingCacheTTL == 300
QuoteValidityDays == 7
SecondsPerDay == 24 * 3600

HalfHour == IdemTTL \div 2
QuoteValidity == QuoteValidityDays * SecondsPerDay

\* clock advances the model takes: half an hour, or a quote's validity period
ClockSteps == {HalfHour, QuoteValidity}

\* ------------------------------------------------------------ shared: cache
\* CacheManager.get: None (Null) for a missing or expired key
cache_get(c, k) ==
    IF k \in DOMAIN c /\ now < c[k].exp THEN c[k].val ELSE Null

\* CacheManager.set(key, value, ttl)
cache_set(c, k, v, ttl) ==
    [x \in DOMAIN c \cup {k} |-> IF x = k THEN [val |-> v, exp |-> now + ttl] ELSE c[x]]

\* CacheManager.delete
cache_delete(c, k) == [x \in DOMAIN c \ {k} |-> c[x]]

\* Redis drops the entries whose TTL has run out by time t
Expired(c, t) == [x \in {y \in DOMAIN c : t < c[y].exp} |-> c[x]]

\* Python truthiness of a cached value: None and empty values are falsy
Truthy(v) == v # Null

\* cached(ttl, key_prefix): f"{key_prefix}:{func.__name__}:{hash(str(args)...)}"
cached_key(prefix, fname, args) == <<prefix, fname, "hash">> \o args

\* ------------------------------------------------------------- shared: auth
Users == {"cust1", "cust2", "admin1"}
NoToken == "NoToken"
Tokens == Users \cup {NoToken}
DevUser == "dev-user"

\* roles a verified token carries (create_user_from_claims)
RolesOf(u) ==
    CASE u = "admin1" -> {"admin"}
      [] u = DevUser -> {"admin"}
      [] OTHER -> {"customer"}

\* AuthManager.authenticate_request: the user of the request, or None
authenticate_request(token) ==
    IF ~authEnabled THEN DevUser
    ELSE IF token = NoToken THEN None
    ELSE token

\* User.has_any_role
has_any_role(u, rs) == RolesOf(u) \cap rs # {}

\* User.has_role
has_role(u, r) == r \in RolesOf(u)

PrivilegedRoles == {"admin", "ops", "sales"}

\* ---------------------------------------------------------- shared: events
\* publish_event / EventProducer.publish: the event is handed to the broker
publish(evs, type, data) == Append(evs, [type |-> type, data |-> data])

\* EventConsumer.__init__: not running, nothing consumed or committed
IdleConsumer ==
    /\ running = FALSE
    /\ position = 0
    /\ committed = 0
    /\ failed = {}
    /\ delivered = <<>>

\* ------------------------------------------------------ quotation: models
QuoteIds == <<"Q-1", "Q-2", "Q-3", "Q-4", "Q-5", "Q-6">>

\* str.upper() on the service codes and channel names the requests carry
Upper(s) ==
    CASE s = "fcl" -> "FCL" [] s = "l1" -> "L1" [] s = "l2" -> "L2"
      [] s = "email" -> "EMAIL" [] s = "sms" -> "SMS" [] s = "in_app" -> "IN_APP"
      [] OTHER -> s

\* Quote.is_expired
is_expired(q) == now > q.valid_until

\* a validity test that looks at the status only
is_valid_by_status(q) == q.status \in {"ISSUED", "DRAFT"}

\* Quote.is_valid
is_valid(q) == now <= q.valid_until /\ q.status \in {"ISSUED", "DRAFT"}

\* Quote.accept: the quote after accept(), when accept() does not raise
accept(q) == [q EXCEPT !.status = "ACCEPTED", !.accepted_at = now]

\* Quote.issue: the quote after issue(), when issue() does not raise
issue(q) == [q EXCEPT !.status = "ISSUED", !.issued_at = now]

\* Quote.to_dict
to_dict(q) ==
    [quote_id |-> q.quote_id, customer_id |-> q.customer_id, status |-> q.status,
     valid_until |-> q.valid_until, accepted_at |-> q.accepted_at,
     is_valid |-> is_valid(q), is_expired |-> is_expired(q)]

\* Quote.__init__: a new quote object, status DRAFT
Quote(id, customer, valid_until) ==
    [quote_id |-> id, customer_id |-> customer, status |-> "DRAFT",
     valid_until |-> valid_until, issued_at |-> NoTime, accepted_at |-> NoTime]

\* Quote.query.filter_by(quote_id=...).first(): index of the row, 0 if none
FindQuote(id) ==
    IF \E i \in 1..Len(quotes) : quotes[i].quote_id = id
    THEN CHOOSE i \in 1..Len(quotes) : quotes[i].quote_id = id
    ELSE 0

\* the access rule of get_quote / accept_quote: TRUE when the caller is denied
AccessDenied(u, q) ==
    /\ u # None
    /\ q.customer_id # None
    /\ q.customer_id # u
    /\ ~has_any_role(u, PrivilegedRoles)

\* ------------------------------------------------- quotation: pricing engine
\* PricingRule rows that the query of _get_pricing_rules matches
Matching(svc, lane) ==
    {i \in 1..Len(rules) :
        /\ rules[i].service = svc
        /\ rules[i].lane_key = lane
        /\ rules[i].is_active
        /\ rules[i].effective_from <= now
        /\ (rules[i].effective_to = NoTime \/ rules[i].effective_to >= now)}

\* ...order_by(version.desc()).first(): None, or any row of the highest version
\* (the order among rows of equal version is the database's choice)
QueryResults(svc, lane) ==
    IF Matching(svc, lane) = {} THEN {Null}
    ELSE {rules[i] : i \in {j \in Matching(svc, lane) :
                               \A k \in Matching(svc, lane) : rules[k].version <= rules[j].version}}

\* key under which cached() memoizes PricingEngine._get_pricing_rules(self, service, lane_key)
pricing_rules_key(svc, lane) ==
    cached_key("pricing_rules", "_get_pricing_rules", <<"PricingEngine", svc>> \o lane)

\* key that create_pricing_rule deletes: f"pricing_rules:{rule.service}:{rule.lane_key}"
pricing_cache_key(svc, lane) == <<"pricing_rules", svc>> \o lane

\* cached(...) wrapper around _get_pricing_rules; r is what the query returns if it runs.
\* A cached None is not a hit (cached_result is not None).
_get_pricing_rules(c, svc, lane, r) ==
    LET k == pricing_rules_key(svc, lane)
        hit == cache_get(c, k) # Null
    IN  [result |-> IF hit THEN cache_get(c, k) ELSE r,
         source |-> IF hit THEN "cache" ELSE "store",
         cache  |-> IF hit THEN c ELSE cache_set(c, k, r, PricingCacheTTL)]

\* f"{origin}-{destination}"
LaneOf(data) == <<Upper(data.origin), Upper(data.destination)>>

\* what a lookup leaves in the variable lookup
LookupRecord(svc, lane, l) ==
    [service |-> svc, lane |-> lane, source |-> l.source, result |-> l.result,
     afterWrite |-> <<svc, lane>> \in written]

\* ---------------------------------------------------- quotation: API routes
NoKey == "NoKey"
IdemKeys == {NoKey, "key-1"}
RequiredFields == {"mode", "service", "origin", "destination"}

Bodies ==
    {[mode |-> "SEA", service |-> "FCL", origin |-> "SGSIN", destination |-> "EGALY",
      customer_id |-> "cust1"],
     [mode |-> "SEA", service |-> "fcl", origin |-> "SGSIN", destination |-> "USNYC",
      customer_id |-> None],
     [mode |-> "SEA", service |-> "FCL", origin |-> "SGSIN"]}

Lanes == {<<"SGSIN", "EGALY">>, <<"SGSIN", "USNYC">>}

\* data.get('customer_id')
CustomerOf(data) == IF "customer_id" \in DOMAIN data THEN data.customer_id ELSE None

idempotency_key(key) == <<"quote_idempotency", key>>
quote_key(id) == <<"quote", id>>

\* the idempotency record kept for the read-cache period instead of an hour
IdemStoreShort(c, key, result) ==
    IF key # NoKey THEN cache_set(c, idempotency_key(key), result, QuoteCacheTTL) ELSE c

\* create_quote: remember the answer under the idempotency key for an hour
IdemStore(c, key, result) ==
    IF key # NoKey THEN cache_set(c, idempotency_key(key), result, IdemTTL) ELSE c

PostRecord(key, data, status, id, stored) ==
    [key |-> key, body |-> data, time |-> now, status |-> status, quote_id |-> id,
     stored |-> stored]

\* the history of keyed requests after one more request
Record(key, data, status, id, stored) ==
    IF key # NoKey THEN Append(posts, PostRecord(key, data, status, id, stored)) ELSE posts

\* POST /quotes
create_quote(key, data) ==
    /\ key # NoKey => Len(posts) < MaxPosts
    /\ IF ~(RequiredFields \subseteq DOMAIN data)
       THEN /\ resp' = [op |-> "create_quote", status |-> 400]
            /\ posts' = Record(key, data, 400, None, 0)
            /\ UNCHANGED <<cache, quotes, published, lookup, written>>
       ELSE IF key # NoKey /\ Truthy(cache_get(cache, idempotency_key(key)))
       THEN LET existing == cache_get(cache, idempotency_key(key))
            IN  /\ resp' = [op |-> "create_quote", status |-> 200, body |-> existing]
                /\ posts' = Record(key, data, 200, existing.quote_id, 0)
                /\ UNCHANGED <<cache, quotes, published, lookup, written>>
       ELSE /\ Len(quotes) < MaxQuotes
            /\ \E r \in QueryResults(Upper(data.service), LaneOf(data)) :
                 LET l == _get_pricing_rules(cache, Upper(data.service), LaneOf(data), r)
                     quote == issue(Quote(QuoteIds[Len(quotes) + 1], CustomerOf(data),
                                          now + QuoteValidity))
                     result == to_dict(quote)
                 IN  /\ lookup' = LookupRecord(Upper(data.service), LaneOf(data), l)
                     /\ written' = written \ {<<Upper(data.service), LaneOf(data)>>}
                     /\ quotes' = Append(quotes, quote)
                     /\ published' = publish(published, "quote.issued", quote.quote_id)
                     /\ cache' = IdemStore(l.cache, key, result)
                     /\ resp' = [op |-> "create_quote", status |-> 201, body |-> result]
                     /\ posts' = Record(key, data, 201, quote.quote_id, 1)
    /\ UNCHANGED <<now, clockSteps, authEnabled, rules>>
    /\ UNCHANGED notQuotation

\* GET /quotes/<quote_id>
get_quote(token, id) ==
    LET cached_quote == cache_get(cache, quote_key(id))
        i == FindQuote(id)
        u == authenticate_request(token)
        base == [op |-> "get_quote", token |-> token, quote_id |-> id]
    IN  /\ IF Truthy(cached_quote)
           THEN /\ resp' = [base EXCEPT !.op = "get_quote"] @@
                           [status |-> 200, body |-> cached_quote, fromCache |-> TRUE]
                /\ UNCHANGED cache
           ELSE IF i = 0
           THEN /\ resp' = base @@ [status |-> 404]
                /\ UNCHANGED cache
           ELSE IF AccessDenied(u, quotes[i])
           THEN /\ resp' = base @@ [status |-> 403]
                /\ UNCHANGED cache
           ELSE /\ resp' = base @@ [status |-> 200, body |-> to_dict(quotes[i]),
                                    fromCache |-> FALSE]
                /\ cache' = cache_set(cache, quote_key(id), to_dict(quotes[i]), QuoteCacheTTL)
        /\ UNCHANGED <<now, clockSteps, authEnabled, published, quotes, rules, posts,
                       lookup, written>>
        /\ UNCHANGED notQuotation

\* PUT /quotes/<quote_id>/accept
accept_quote(token, id) ==
    LET i == FindQuote(id)
        u == authenticate_request(token)
        base == [op |-> "accept_quote", quote_id |-> id]
    IN  /\ IF i = 0
           THEN /\ resp' = base @@ [status |-> 404]
                /\ UNCHANGED <<cache, quotes, published>>
           ELSE IF ~is_valid(quotes[i])
           THEN /\ resp' = base @@ [status |-> 400]
                /\ UNCHANGED <<cache, quotes, published>>
           ELSE IF AccessDenied(u, quotes[i])
           THEN /\ resp' = base @@ [status |-> 403]
                /\ UNCHANGED <<cache, quotes, published>>
           ELSE /\ quotes' = [quotes EXCEPT ![i] = accept(quotes[i])]
                /\ published' = publish(published, "quote.accepted", id)
                /\ cache' = cache_delete(cache, quote_key(id))
                /\ resp' = base @@ [status |-> 200, body |-> to_dict(accept(quotes[i])),
                                    from |-> quotes[i].status]
        /\ UNCHANGED <<now, clockSteps, authEnabled, rules, posts, lookup, written>>
        /\ UNCHANGED notQuotation

\* Quote.create(**kwargs) (BaseModel.create): a new row, status DRAFT
Quote_create(customer) ==
    /\ Len(quotes) < MaxQuotes
    /\ quotes' = Append(quotes, Quote(QuoteIds[Len(quotes) + 1], customer, now + QuoteValidity))
    /\ resp' = [op |-> "Quote.create", status |-> "ok"]
    /\ UNCHANGED <<now, clockSteps, authEnabled, cache, published, rules, posts, lookup,
                   written>>
    /\ UNCHANGED notQuotation

\* quote.issue() followed by save()
Quote_issue(i) ==
    /\ i \in 1..Len(quotes)
    /\ IF quotes[i].status # "DRAFT"
       THEN /\ resp' = [op |-> "Quote.issue", status |-> "ValueError"]
            /\ UNCHANGED quotes
       ELSE /\ resp' = [op |-> "Quote.issue", status |-> "ok"]
            /\ quotes' = [quotes EXCEPT ![i] = issue(quotes[i])]
    /\ UNCHANGED <<now, clockSteps, authEnabled, cache, published, rules, posts, lookup,
                   written>>
    /\ UNCHANGED notQuotation

\* quote.accept() followed by save()
Quote_accept(i) ==
    /\ i \in 1..Len(quotes)
    /\ IF ~is_valid(quotes[i])
       THEN /\ resp' = [op |-> "Quote.accept", status |-> "ValueError",
                        quote_id |-> quotes[i].quote_id]
            /\ UNCHANGED quotes
       ELSE /\ resp' = [op |-> "Quote.accept", status |-> "ok",
                        quote_id |-> quotes[i].quote_id, from |-> quotes[i].status,
                        body |-> to_dict(accept(quotes[i]))]
            /\ quotes' = [quotes EXCEPT ![i] = accept(quotes[i])]
    /\ UNCHANGED <<now, clockSteps, authEnabled, cache, published, rules, posts, lookup,
                   written>>
    /\ UNCHANGED notQuotation

\* PricingRule(...) as create_pricing_rule builds it: version, is_active by default
PricingRule(svc, lane) ==
    [id |-> Len(rules) + 1, service |-> svc, lane_key |-> lane, version |-> 1,
     is_active |-> TRUE, effective_from |-> now, effective_to |-> NoTime]

\* POST /pricing-rules
create_pricing_rule(token, svc, lane) ==
    LET u == authenticate_request(token)
        rule == PricingRule(Upper(svc), lane)
    IN  /\ IF u = None
           THEN /\ resp' = [op |-> "create_pricing_rule", status |-> 401]
                /\ UNCHANGED <<rules, cache, written>>
           ELSE IF ~has_role(u, "admin")
           THEN /\ resp' = [op |-> "create_pricing_rule", status |-> 403]
                /\ UNCHANGED <<rules, cache, written>>
           ELSE /\ Len(rules) < MaxRules
                /\ rules' = Append(rules, rule)
                /\ cache' = cache_delete(cache, pricing_cache_key(rule.service, rule.lane_key))
                /\ written' = written \cup {<<rule.service, rule.lane_key>>}
                /\ resp' = [op |-> "create_pricing_rule", status |-> 201]
        /\ UNCHANGED <<now, clockSteps, authEnabled, published, quotes, posts, lookup>>
        /\ UNCHANGED notQuotation

\* PricingEngine.calculate_price: the pricing-rule lookup it starts with
calculate_price(data) ==
    /\ RequiredFields \subseteq DOMAIN data
    /\ \E r \in QueryResults(Upper(data.service), LaneOf(data)) :
         LET l == _get_pricing_rules(cache, Upper(data.service), LaneOf(data), r)
         IN  /\ lookup' = LookupRecord(Upper(data.service), LaneOf(data), l)
             /\ written' = written \ {<<Upper(data.service), LaneOf(data)>>}
             /\ cache' = l.cache
             /\ resp' = [op |-> "calculate_price", status |-> "ok",
                         fallback |-> (l.result = Null)]
    /\ UNCHANGED <<now, clockSteps, authEnabled, published, quotes, rules, posts>>
    /\ UNCHANGED notQuotation

\* time passes; Redis expires what is due
Tick(d) ==
    /\ clockSteps < MaxTicks
    /\ clockSteps' = clockSteps + 1
    /\ now' = now + d
    /\ cache' = Expired(cache, now + d)
    /\ UNCHANGED <<authEnabled, published, resp, quotes, rules, posts, lookup, written>>
    /\ UNCHANGED notQuotation

\* init_db seeds a rule for FCL on SGSIN-EGALY
SeedRules ==
    <<[id |-> 1, service |-> "FCL", lane_key |-> <<"SGSIN", "EGALY">>, version |-> 1,
       is_active |-> TRUE, effective_from |-> 0, effective_to |-> NoTime]>>

\* the workers that serve requests concurrently, and a worker that serves none
Procs == {1, 2}
IdleCall == [pc |-> "idle"]

NoResp == [op |-> "none", status |-> "none"]
NoLookup == [service |-> None, lane |-> <<>>, source |-> "none", result |-> Null,
             afterWrite |-> FALSE]

\* the quotation service after init_db: no quotes, the seeded rule
IdleQuotation ==
    /\ quotes = <<>>
    /\ rules = SeedRules
    /\ posts = <<>>
    /\ lookup = NoLookup
    /\ written = {}

\* BookingEngine.__init__: nothing booked
IdleBooking ==
    /\ bookingsMade = <<>>
    /\ shipments = <<>>
    /\ allocated = 0

\* NotificationPreference(user_id=...): the dataclass defaults
NotificationPreference(user) ==
    [user_id |-> user, email_enabled |-> TRUE, sms_enabled |-> FALSE, in_app_enabled |-> TRUE,
     quote_notifications |-> TRUE, marketing_notifications |-> FALSE]

\* NotificationService.__init__: nothing created, nobody has changed a preference
IdleNotifications ==
    /\ wanted = [u \in Users |-> NotificationPreference(u)]
    /\ notifCount = 0

\* ContractService.__init__: nothing created
IdleContracts ==
    /\ contractCount = 0
    /\ amendmentLog = <<>>

\* LeadService.__init__: nothing created
IdleLeads ==
    /\ leadCount = 0
    /\ customerCount = 0

\* VendorService.__init__: nothing created
IdleVendors ==
    /\ vendorCount = 0
    /\ ratingLog = <<>>

\* EventProcessor.__init__: nothing processed
IdleProcessor ==
    /\ created = <<>>
    /\ errorsLogged = 0

\* DocumentService.__init__: an empty store, nothing uploaded
IdleDocuments ==
    /\ objects = <<>>
    /\ uploaded = <<>>

\* the database helpers before their first use
IdleDatabase ==
    /\ transactions = <<>>
    /\ retried = <<>>

\* EventProducer.__init__ where the Kafka client is installed: no producer yet
IdleProducer ==
    /\ kafkaInstalled = TRUE
    /\ _producer = None
    /\ sent = <<>>

\* no request is being served
IdleWorkers ==
    /\ calls = [p \in Procs |-> IdleCall]

\* no notification has been built for delivery
IdleDelivery ==
    /\ noteObj = Null

\* the threads that call start() and stop() on the consumer
Callers == {1, 2}

\* EventConsumer.__init__: no thread, no consumer object
IdleThreads ==
    /\ loops = <<>>
    /\ callers = [c \in Callers |-> "idle"]
    /\ threadRef = 0
    /\ consumerOpen = FALSE
    /\ stopReturned = FALSE

InitQuote ==
    /\ now = 0
    /\ clockSteps = 0
    /\ authEnabled \in BOOLEAN
    /\ cache = <<>>
    /\ published = <<>>
    /\ resp = NoResp
    /\ IdleQuotation
    /\ IdleConsumer
    /\ IdleBooking
    /\ IdleNotifications
    /\ IdleContracts
    /\ IdleLeads
    /\ IdleVendors
    /\ IdleProcessor
    /\ IdleDocuments
    /\ IdleDatabase
    /\ IdleProducer
    /\ IdleWorkers
    /\ IdleDelivery
    /\ IdleThreads

\* ids a request may name: those of the rows there can be, and one that is never there
RequestIds == {QuoteIds[i] : i \in 1..(MaxQuotes + 1)}

\* POST /quotes with and without an Idempotency-Key, as time passes
NextIdem ==
    \/ \E k \in IdemKeys, b \in Bodies : create_quote(k, b)
    \/ Tick(HalfHour)

SpecIdem == InitQuote /\ [][NextIdem]_vars

\* quotes created over the API, read and accepted by the callers
NextAccess ==
    \/ \E b \in Bodies : create_quote(NoKey, b)
    \/ \E t \in Tokens, id \in RequestIds : get_quote(t, id)
    \/ \E t \in Tokens, id \in RequestIds : accept_quote(t, id)
    \/ Tick(HalfHour)

SpecAccess == InitQuote /\ [][NextAccess]_vars

\* the life of a quote row: created, issued, accepted, expiring
NextLifecycle ==
    \/ \E c \in {"cust1", None} : Quote_create(c)
    \/ \E i \in 1..MaxQuotes : Quote_issue(i)
    \/ \E i \in 1..MaxQuotes : Quote_accept(i)
    \/ \E t \in Tokens, id \in RequestIds : accept_quote(t, id)
    \/ \E d \in ClockSteps : Tick(d)

SpecLifecycle == InitQuote /\ [][NextLifecycle]_vars

\* pricing rules administered while prices are calculated
NextPricing ==
    \/ \E t \in Tokens, s \in {"fcl"}, l \in Lanes : create_pricing_rule(t, s, l)
    \/ \E b \in Bodies : calculate_price(b)
    \/ Tick(HalfHour)

SpecPricing == InitQuote /\ [][NextPricing]_vars

\* ------------------------------------------------- shared: event consumer
\* the messages of one topic partition, by offset (offset = index - 1); the last
\* one is of a type no handler is registered for
EventLog == <<"quote.issued", "booking.created", "quote.accepted", "audit.logged">>
Handlers == {"quote.issued", "booking.created", "quote.accepted"}

\* what a registered handler may do with an event
HandlerOutcomes == {"True", "False", "raise"}

\* EventConsumer._process_message: TRUE when the message counts as processed
_process_message(type, h) ==
    IF type \in Handlers THEN h = "True" ELSE TRUE

\* the offsets a poll returns: the next n messages from the fetch position
Polled(n) == {position + i : i \in 0..(n - 1)}

\* offsets of a polled batch that _process_message reports as processed
Succeeded(n, hs) == {o \in Polled(n) : _process_message(EventLog[o + 1], hs[o - position + 1])}

\* the highest element of a non-empty set of offsets
Highest(S) == CHOOSE o \in S : \A x \in S : x <= o

\* the history of deliveries after a batch of n messages
Deliveries(n, hs) ==
    delivered \o [i \in 1..n |->
                    [offset |-> position + i - 1,
                     ok |-> _process_message(EventLog[position + i], hs[i]),
                     committed |-> IF \E o \in Succeeded(n, hs) : o <= position + i - 1
                                   THEN Highest({o \in Succeeded(n, hs) : o <= position + i - 1}) + 1
                                   ELSE committed]]

\* one turn of EventConsumer._consume_loop: poll up to max_poll_records messages,
\* process each in order, commit offset + 1 after each success, go on after a failure
_consume_loop(n, hs) ==
    /\ running
    /\ n \in 1..MaxPollRecords
    /\ position + n <= Len(EventLog)
    /\ Len(delivered) + n <= MaxDeliveries
    /\ position' = position + n
    /\ committed' = IF Succeeded(n, hs) = {} THEN committed ELSE Highest(Succeeded(n, hs)) + 1
    /\ failed' = (failed \ Succeeded(n, hs)) \cup (Polled(n) \ Succeeded(n, hs))
    /\ delivered' = Deliveries(n, hs)
    /\ UNCHANGED <<running, now, clockSteps, authEnabled, cache, published, resp>>
    /\ UNCHANGED notEvents

\* EventConsumer.start: a new consumer of the group resumes at the committed offset
start ==
    /\ IF running
       THEN UNCHANGED <<running, position>>
       ELSE /\ running' = TRUE
            /\ position' = committed
    /\ UNCHANGED <<committed, failed, delivered>>
    /\ UNCHANGED <<now, clockSteps, authEnabled, cache, published, resp>>
    /\ UNCHANGED notEvents

\* EventConsumer.stop
stop ==
    /\ running' = FALSE
    /\ UNCHANGED <<position, committed, failed, delivered>>
    /\ UNCHANGED <<now, clockSteps, authEnabled, cache, published, resp>>
    /\ UNCHANGED notEvents

InitEvents ==
    /\ now = 0
    /\ clockSteps = 0
    /\ authEnabled = FALSE
    /\ cache = <<>>
    /\ published = <<>>
    /\ resp = NoResp
    /\ IdleQuotation
    /\ IdleConsumer
    /\ IdleBooking
    /\ IdleNotifications
    /\ IdleContracts
    /\ IdleLeads
    /\ IdleVendors
    /\ IdleProcessor
    /\ IdleDocuments
    /\ IdleDatabase
    /\ IdleProducer
    /\ IdleWorkers
    /\ IdleDelivery
    /\ IdleThreads

NextEvents ==
    \/ \E n \in 1..MaxPollRecords, hs \in [1..MaxPollRecords -> HandlerOutcomes] :
          _consume_loop(n, hs)
    \/ start
    \/ stop

SpecEvents == InitEvents /\ [][NextEvents]_vars

\* ------------------------------------------------------------ booking engine
BookingIds == <<"B-1", "B-2", "B-3", "B-4">>
ShipmentIds == <<"S-1", "S-2", "S-3", "S-4">>
BookingTTL == 3600

booking_key(id) == <<"booking", id>>
shipment_key(id) == <<"shipment", id>>
tracking_key(id) == <<"tracking", id>>

\* Booking(...) as create_booking builds it
Booking(id, quote_id, customer_id) ==
    [id |-> id, quote_id |-> quote_id, customer_id |-> customer_id, status |-> "PENDING",
     created_by |-> customer_id, confirmed_at |-> NoTime]

\* Booking.to_dict
booking_to_dict(b) ==
    [id |-> b.id, quote_id |-> b.quote_id, customer_id |-> b.customer_id,
     status |-> b.status, created_by |-> b.created_by, confirmed_at |-> b.confirmed_at]

\* BookingEngine._dict_to_booking: a new Booking() with five fields taken from the dict
_dict_to_booking(data) ==
    [id |-> data.id, quote_id |-> data.quote_id, customer_id |-> data.customer_id,
     status |-> data.status, created_by |-> "", confirmed_at |-> NoTime]

\* BookingEngine._load_booking
_load_booking(id) == Null

\* BookingEngine._is_admin
_is_admin(user) == TRUE

\* BookingEngine._can_access_booking
_can_access_booking(b, user) == b.created_by = user \/ _is_admin(user)

\* BookingEngine._get_quote: the quote the quotation service is asked for
_get_quote(quote_id) == [id |-> quote_id, status |-> "ACCEPTED", origin_port |-> "USNYC"]

\* BookingEngine.get_booking: what it returns, and the cache it leaves
get_booking(c, id, user) ==
    IF Truthy(cache_get(c, booking_key(id)))
    THEN LET b == _dict_to_booking(cache_get(c, booking_key(id)))
         IN  [result |-> IF _can_access_booking(b, user) THEN b ELSE Null, cache |-> c]
    ELSE LET b == _load_booking(id)
         IN  IF b = Null THEN [result |-> Null, cache |-> c]
             ELSE IF ~_can_access_booking(b, user) THEN [result |-> Null, cache |-> c]
             ELSE [result |-> b,
                   cache |-> cache_set(c, booking_key(id), booking_to_dict(b), BookingTTL)]

\* container requirements a confirm may carry: none, or n containers of one type
Requirements == {0, 1}

\* BookingEngine._allocate_containers: the ids of the containers allocated
_allocate_containers(n) == [i \in 1..n |-> allocated + i]

\* BookingEngine.create_booking
create_booking(quote_id, customer_id) ==
    /\ Len(bookingsMade) < MaxBookings
    /\ LET booking == Booking(BookingIds[Len(bookingsMade) + 1], quote_id, customer_id)
       IN  /\ _get_quote(quote_id).status = "ACCEPTED"
           /\ bookingsMade' = Append(bookingsMade, booking)
           /\ cache' = cache_set(cache, booking_key(booking.id), booking_to_dict(booking),
                                 BookingTTL)
           /\ published' = publish(published, "booking.created", booking.id)
           /\ resp' = [op |-> "create_booking", status |-> "ok", booking_id |-> booking.id]
    /\ UNCHANGED <<now, clockSteps, authEnabled, shipments, allocated>>
    /\ UNCHANGED notBooking

\* a caller of BookingEngine.get_booking (GET /bookings/<id>)
GetBooking(id, user) ==
    /\ cache' = get_booking(cache, id, user).cache
    /\ resp' = [op |-> "get_booking", booking_id |-> id, user |-> user,
                result |-> get_booking(cache, id, user).result]
    /\ UNCHANGED <<now, clockSteps, authEnabled, published, bkVars>>
    /\ UNCHANGED notBooking

\* the booking.confirmed event of confirm_booking, its timestamp left aside; the
\* shipment's id stands for its tracking number
booking_confirmed_data(booking, shipment) ==
    [booking_id |-> booking.id, shipment_id |-> shipment.id,
     tracking_number |-> shipment.id, customer_id |-> booking.customer_id]

\* what a confirm_booking call found before it acted
Before(id) ==
    [booking_id |-> id,
     confirmed |-> \E i \in 1..Len(shipments) : shipments[i].booking_id = id,
     shipments |-> Len(shipments), allocated |-> allocated, published |-> Len(published)]

\* BookingEngine.confirm_booking
confirm_booking(id, user, n) ==
    LET g == get_booking(cache, id, user)
        booking == g.result
        container_ids == _allocate_containers(n)
        shipment == [id |-> ShipmentIds[Len(shipments) + 1], booking_id |-> id,
                     status |-> "BOOKED", container_ids |-> container_ids,
                     tracking_events |-> <<[status |-> "BOOKED", event_time |-> now]>>]
        confirmed == [booking EXCEPT !.status = "CONFIRMED", !.confirmed_at = now]
    IN  /\ IF booking = Null
           THEN /\ resp' = [op |-> "confirm_booking", status |-> "NotFound", before |-> Before(id)]
                /\ cache' = g.cache
                /\ UNCHANGED <<shipments, allocated, published>>
           ELSE IF booking.status # "PENDING"
           THEN /\ resp' = [op |-> "confirm_booking", status |-> "Conflict", before |-> Before(id)]
                /\ cache' = g.cache
                /\ UNCHANGED <<shipments, allocated, published>>
           ELSE /\ Len(shipments) < MaxBookings
                /\ allocated' = allocated + n
                /\ shipments' = Append(shipments, shipment)
                /\ cache' = cache_set(cache_set(cache_set(g.cache,
                                booking_key(id), booking_to_dict(confirmed), BookingTTL),
                                shipment_key(shipment.id), shipment, BookingTTL),
                                tracking_key(shipment.id), shipment, BookingTTL)
                /\ published' = publish(publish(published, "booking.confirmed",
                                                booking_confirmed_data(confirmed, shipment)),
                                        "shipment.created", shipment.id)
                /\ resp' = [op |-> "confirm_booking", status |-> "ok", before |-> Before(id)]
        /\ UNCHANGED <<now, clockSteps, authEnabled, bookingsMade>>
        /\ UNCHANGED notBooking

InitBooking ==
    /\ now = 0
    /\ clockSteps = 0
    /\ authEnabled = FALSE
    /\ cache = <<>>
    /\ published = <<>>
    /\ resp = NoResp
    /\ IdleQuotation
    /\ IdleConsumer
    /\ IdleBooking
    /\ IdleNotifications
    /\ IdleContracts
    /\ IdleLeads
    /\ IdleVendors
    /\ IdleProcessor
    /\ IdleDocuments
    /\ IdleDatabase
    /\ IdleProducer
    /\ IdleWorkers
    /\ IdleDelivery
    /\ IdleThreads

RequestBookingIds == {BookingIds[i] : i \in 1..(MaxBookings + 1)}

NextBooking ==
    \/ \E c \in {"cust1", "cust2"} : create_booking("Q-1", c)
    \/ \E id \in RequestBookingIds, u \in Users : GetBooking(id, u)
    \/ \E id \in RequestBookingIds, u \in Users, n \in Requirements : confirm_booking(id, u, n)
    \/ Tick(HalfHour)

SpecBooking == InitBooking /\ [][NextBooking]_vars

\* ------------------------------------------------------ notification service
NotificationIds == <<"N-1", "N-2", "N-3", "N-4", "N-5", "N-6", "N-7", "N-8">>
NotificationTTL == 3600
PreferencesTTL == 3600

\* members of NotificationChannel and NotificationType the requests use
NotificationChannel == {"EMAIL", "SMS", "IN_APP", "WEBHOOK"}
NotificationType == {"QUOTE_CREATED", "MARKETING", "WELCOME"}

notification_key(id) == <<"notification", id>>
preferences_key(user) == <<"preferences", user>>

\* NotificationPreference.is_channel_enabled
is_channel_enabled(p, channel) ==
    CASE channel = "EMAIL" -> p.email_enabled
      [] channel = "SMS" -> p.sms_enabled
      [] channel = "IN_APP" -> p.in_app_enabled
      [] OTHER -> FALSE

\* NotificationPreference.is_type_enabled
is_type_enabled(p, type) ==
    CASE type = "QUOTE_CREATED" -> p.quote_notifications
      [] type = "MARKETING" -> p.marketing_notifications
      [] OTHER -> TRUE

\* NotificationPreference.to_dict
preferences_to_dict(p) ==
    [user_id |-> p.user_id, email_enabled |-> p.email_enabled, sms_enabled |-> p.sms_enabled,
     in_app_enabled |-> p.in_app_enabled, quote_notifications |-> p.quote_notifications,
     marketing_notifications |-> p.marketing_notifications]

\* NotificationService._dict_to_preferences: a new NotificationPreference() with the
\* user id and the channel flags taken from the dict
_dict_to_preferences(data) ==
    [NotificationPreference(data.user_id) EXCEPT
        !.email_enabled = data.email_enabled,
        !.sms_enabled = data.sms_enabled,
        !.in_app_enabled = data.in_app_enabled]

\* NotificationService._load_user_preferences
_load_user_preferences(user) ==
    [NotificationPreference(user) EXCEPT
        !.email_enabled = TRUE, !.sms_enabled = FALSE, !.in_app_enabled = TRUE]

\* NotificationService.get_user_preferences: what it returns, and the cache it leaves
get_user_preferences(c, user) ==
    IF Truthy(cache_get(c, preferences_key(user)))
    THEN [result |-> _dict_to_preferences(cache_get(c, preferences_key(user))), cache |-> c]
    ELSE [result |-> _load_user_preferences(user),
          cache |-> cache_set(c, preferences_key(user),
                              preferences_to_dict(_load_user_preferences(user)), PreferencesTTL)]

PreferenceFields ==
    {"email_enabled", "sms_enabled", "in_app_enabled", "quote_notifications",
     "marketing_notifications"}

\* setattr(user_preferences, field, value)
SetPreference(p, field, value) ==
    [f \in DOMAIN p |-> IF f = field THEN value ELSE p[f]]

\* NotificationService.update_user_preferences with preferences = {field: value}
update_user_preferences(user, field, value) ==
    LET g == get_user_preferences(cache, user)
        user_preferences == SetPreference(g.result, field, value)
    IN  /\ Len(published) < MaxEvents
        /\ cache' = cache_set(g.cache, preferences_key(user),
                              preferences_to_dict(user_preferences), PreferencesTTL)
        /\ published' = publish(published, "notification.preferences_updated", user)
        /\ wanted' = [wanted EXCEPT ![user] = SetPreference(wanted[user], field, value)]
        /\ resp' = [op |-> "update_user_preferences", status |-> "ok", user |-> user,
                    result |-> user_preferences]
        /\ UNCHANGED <<now, clockSteps, authEnabled, notifCount>>
        /\ UNCHANGED notNotifications

\* the channel lists a request may carry (none: the default applies)
ChannelRequests ==
    {<<>>, <<"EMAIL">>, <<"SMS">>, <<"EMAIL", "SMS">>, <<"SMS", "IN_APP">>, <<"WEBHOOK">>,
     <<"FAX">>}

\* create_notification: the parsed channels, [EMAIL] when none are given
ParsedChannels(channels) == IF channels = <<>> THEN <<"EMAIL">> ELSE channels

\* create_notification: the channels left by the recipient's preferences, [IN_APP] if none
FinalChannels(p, type, channels) ==
    LET Enabled(ch) == is_channel_enabled(p, ch) /\ is_type_enabled(p, type)
        enabled_channels == SelectSeq(channels, Enabled)
    IN  IF enabled_channels = <<>> THEN <<"IN_APP">> ELSE enabled_channels

\* Notification.add_delivery_attempt, once for each channel of the list
DeliveryAttempts(channels) ==
    [i \in 1..Len(channels) |->
        [channel |-> channels[i], status |-> "PENDING",
         attempt_number |-> Cardinality({j \in 1..(i - 1) : channels[j] = channels[i]}) + 1]]

\* NotificationService.create_notification
create_notification(recipient, type, channels) ==
    IF \E i \in 1..Len(channels) : channels[i] \notin NotificationChannel
    THEN /\ resp' = [op |-> "create_notification", status |-> "BadRequest"]
         /\ UNCHANGED <<cache, published, notifCount>>
         /\ UNCHANGED <<now, clockSteps, authEnabled, wanted>>
         /\ UNCHANGED notNotifications
    ELSE LET g == get_user_preferences(cache, recipient)
             final == FinalChannels(g.result, type, ParsedChannels(channels))
             notification == [id |-> NotificationIds[notifCount + 1], recipient_id |-> recipient,
                              type |-> type, status |-> "PENDING", channels |-> final,
                              delivery_attempts |-> DeliveryAttempts(final)]
         IN  /\ notifCount < MaxNotifications
             /\ notifCount' = notifCount + 1
             /\ cache' = cache_set(g.cache, notification_key(notification.id), notification,
                                   NotificationTTL)
             /\ published' = publish(published, "notification.created", notification.id)
             /\ resp' = [op |-> "create_notification", status |-> "ok",
                         recipient |-> recipient, type |-> type,
                         requested |-> ParsedChannels(channels),
                         attempts |-> notification.delivery_attempts]
             /\ UNCHANGED <<now, clockSteps, authEnabled, wanted>>
             /\ UNCHANGED notNotifications

InitNotif ==
    /\ now = 0
    /\ clockSteps = 0
    /\ authEnabled = FALSE
    /\ cache = <<>>
    /\ published = <<>>
    /\ resp = NoResp
    /\ IdleQuotation
    /\ IdleConsumer
    /\ IdleBooking
    /\ IdleNotifications
    /\ IdleContracts
    /\ IdleLeads
    /\ IdleVendors
    /\ IdleProcessor
    /\ IdleDocuments
    /\ IdleDatabase
    /\ IdleProducer
    /\ IdleWorkers
    /\ IdleDelivery
    /\ IdleThreads

Recipients == {"cust1"}

NextNotif ==
    \/ \E u \in Recipients, f \in PreferenceFields, v \in BOOLEAN :
          update_user_preferences(u, f, v)
    \/ \E u \in Recipients, t \in NotificationType, chs \in ChannelRequests :
          create_notification(u, t, chs)
    \/ Tick(HalfHour)

SpecNotif == InitNotif /\ [][NextNotif]_vars

\* ---------------------------------------------------------- contract service
ContractIds == <<"CT-1", "CT-2", "CT-3">>
DemoContract == "demo"
ContractTTL == 3600
DemoStartedDays == 30
DemoEndsDays == 335

contract_key(id) == <<"contract", id>>

\* Contract(...) as create_contract builds it: status DRAFT, no amendments
Contract(id, vendor_id, start_date, end_date) ==
    [id |-> id, vendor_id |-> vendor_id, status |-> "DRAFT", start_date |-> start_date,
     end_date |-> end_date, amendments |-> <<>>]

\* Contract.to_dict
contract_to_dict(c) ==
    [id |-> c.id, vendor_id |-> c.vendor_id, status |-> c.status,
     start_date |-> c.start_date, end_date |-> c.end_date, amendments |-> c.amendments]

\* ContractService._dict_to_contract: a new Contract() with the scalar fields and the
\* dates taken from the dict
_dict_to_contract(data) ==
    [id |-> data.id, vendor_id |-> data.vendor_id, status |-> data.status,
     start_date |-> data.start_date, end_date |-> data.end_date, amendments |-> <<>>]

\* ContractService._load_contract: the sample contract for "demo", else None
_load_contract(id) ==
    IF id = DemoContract
    THEN [Contract(id, "demo-vendor", now - DemoStartedDays * SecondsPerDay,
                   now + DemoEndsDays * SecondsPerDay) EXCEPT !.status = "ACTIVE"]
    ELSE Null

\* ContractService.get_contract: what it returns, and the cache it leaves
get_contract(c, id) ==
    IF Truthy(cache_get(c, contract_key(id)))
    THEN [result |-> _dict_to_contract(cache_get(c, contract_key(id))), cache |-> c]
    ELSE IF _load_contract(id) = Null THEN [result |-> Null, cache |-> c]
    ELSE [result |-> _load_contract(id),
          cache |-> cache_set(c, contract_key(id), contract_to_dict(_load_contract(id)),
                              ContractTTL)]

\* Contract.add_amendment
add_amendment(c, amendment) ==
    [c EXCEPT !.amendments =
        Append(c.amendments, [amendment EXCEPT !.contract_id = c.id,
                                               !.amendment_number = Len(c.amendments) + 1])]

\* (start_date, end_date) pairs a create_contract request may carry
ContractDates == {<<10, 20>>, <<10, NoTime>>, <<NoTime, 20>>, <<20, 10>>}

\* ContractService.create_contract
create_contract(vendor_id, start_date, end_date) ==
    /\ IF start_date = NoTime \/ (end_date # NoTime /\ end_date <= start_date)
       THEN /\ resp' = [op |-> "create_contract", status |-> "BadRequest"]
            /\ UNCHANGED <<cache, published, contractCount>>
       ELSE LET contract == Contract(ContractIds[contractCount + 1], vendor_id, start_date,
                                     end_date)
            IN  /\ contractCount < MaxContracts
                /\ contractCount' = contractCount + 1
                /\ cache' = cache_set(cache, contract_key(contract.id),
                                      contract_to_dict(contract), ContractTTL)
                /\ published' = publish(published, "contract.created", contract.id)
                /\ resp' = [op |-> "create_contract", status |-> "ok", result |-> contract]
    /\ UNCHANGED <<now, clockSteps, authEnabled, amendmentLog>>
    /\ UNCHANGED notContracts

\* ContractService.activate_contract
activate_contract(id) ==
    LET g == get_contract(cache, id)
        contract == g.result
    IN  /\ IF contract = Null
           THEN /\ resp' = [op |-> "activate_contract", status |-> "NotFound"]
                /\ cache' = g.cache
                /\ UNCHANGED published
           ELSE IF contract.status \notin {"DRAFT", "PENDING_APPROVAL"}
           THEN /\ resp' = [op |-> "activate_contract", status |-> "Conflict"]
                /\ cache' = g.cache
                /\ UNCHANGED published
           ELSE /\ cache' = cache_set(g.cache, contract_key(id),
                                      contract_to_dict([contract EXCEPT !.status = "ACTIVE"]),
                                      ContractTTL)
                /\ published' = publish(published, "contract.activated", id)
                /\ resp' = [op |-> "activate_contract", status |-> "ok"]
        /\ UNCHANGED <<now, clockSteps, authEnabled, ctVars>>
        /\ UNCHANGED notContracts

\* ContractService.terminate_contract
terminate_contract(id) ==
    LET g == get_contract(cache, id)
        contract == g.result
    IN  /\ IF contract = Null
           THEN /\ resp' = [op |-> "terminate_contract", status |-> "NotFound"]
                /\ cache' = g.cache
                /\ UNCHANGED published
           ELSE IF contract.status # "ACTIVE"
           THEN /\ resp' = [op |-> "terminate_contract", status |-> "Conflict"]
                /\ cache' = g.cache
                /\ UNCHANGED published
           ELSE /\ cache' = cache_set(g.cache, contract_key(id),
                                      contract_to_dict([contract EXCEPT !.status = "TERMINATED"]),
                                      ContractTTL)
                /\ published' = publish(published, "contract.terminated", id)
                /\ resp' = [op |-> "terminate_contract", status |-> "ok"]
        /\ UNCHANGED <<now, clockSteps, authEnabled, ctVars>>
        /\ UNCHANGED notContracts

AmendmentTypes == {"RATE_CHANGE", "NO_SUCH_TYPE"}
ValidAmendmentTypes == {"RATE_CHANGE"}

\* ContractService.create_contract_amendment
create_contract_amendment(id, amendment_type) ==
    LET g == get_contract(cache, id)
        contract == g.result
        amendment == [contract_id |-> id, amendment_number |-> 1,
                      amendment_type |-> amendment_type]
        amended == add_amendment(contract, amendment)
        added == amended.amendments[Len(amended.amendments)]
    IN  /\ IF contract = Null
           THEN /\ resp' = [op |-> "create_contract_amendment", status |-> "NotFound"]
                /\ cache' = g.cache
                /\ UNCHANGED <<published, amendmentLog>>
           ELSE IF contract.status # "ACTIVE"
           THEN /\ resp' = [op |-> "create_contract_amendment", status |-> "Conflict"]
                /\ cache' = g.cache
                /\ UNCHANGED <<published, amendmentLog>>
           ELSE IF amendment_type \notin ValidAmendmentTypes
           THEN /\ resp' = [op |-> "create_contract_amendment", status |-> "BadRequest"]
                /\ cache' = g.cache
                /\ UNCHANGED <<published, amendmentLog>>
           ELSE /\ Len(amendmentLog) < MaxAmendments
                /\ amendmentLog' = Append(amendmentLog, added)
                /\ cache' = cache_set(g.cache, contract_key(id), contract_to_dict(amended),
                                      ContractTTL)
                /\ published' = publish(published, "contract.amendment_created", id)
                /\ resp' = [op |-> "create_contract_amendment", status |-> "ok",
                            result |-> added]
        /\ UNCHANGED <<now, clockSteps, authEnabled, contractCount>>
        /\ UNCHANGED notContracts

InitContract ==
    /\ now = 0
    /\ clockSteps = 0
    /\ authEnabled = FALSE
    /\ cache = <<>>
    /\ published = <<>>
    /\ resp = NoResp
    /\ IdleQuotation
    /\ IdleConsumer
    /\ IdleBooking
    /\ IdleNotifications
    /\ IdleContracts
    /\ IdleLeads
    /\ IdleVendors
    /\ IdleProcessor
    /\ IdleDocuments
    /\ IdleDatabase
    /\ IdleProducer
    /\ IdleWorkers
    /\ IdleDelivery
    /\ IdleThreads

RequestContractIds == {ContractIds[i] : i \in 1..(MaxContracts + 1)} \cup {DemoContract}

NextContract ==
    \/ \E d \in ContractDates : create_contract("vendor-1", d[1], d[2])
    \/ \E id \in RequestContractIds : activate_contract(id)
    \/ \E id \in RequestContractIds : terminate_contract(id)
    \/ \E id \in RequestContractIds, t \in AmendmentTypes : create_contract_amendment(id, t)
    \/ Tick(HalfHour)

SpecContract == InitContract /\ [][NextContract]_vars

\* -------------------------------------------------------------- lead service
LeadIds == <<"L-1", "L-2", "L-3">>
CustomerIds == <<"CU-1", "CU-2", "CU-3", "CU-4">>
DemoLead == "demo"
LeadTTL == 3600
CustomerTTL == 3600

LeadStatus ==
    {"NEW", "CONTACTED", "QUALIFIED", "PROPOSAL_SENT", "NEGOTIATION", "CONVERTED", "LOST",
     "DISQUALIFIED"}
TerminalLeadStatus == {"CONVERTED", "LOST", "DISQUALIFIED"}

lead_key(id) == <<"lead", id>>
customer_key(id) == <<"customer", id>>

\* Lead(...) as create_lead builds it: status NEW
Lead(id, email) ==
    [id |-> id, email |-> email, status |-> "NEW", converted_to_customer_id |-> None,
     lost_reason |-> None]

\* Lead.to_dict
lead_to_dict(l) ==
    [id |-> l.id, email |-> l.email, status |-> l.status,
     converted_to_customer_id |-> l.converted_to_customer_id, lost_reason |-> l.lost_reason]

\* LeadService._dict_to_lead: a new Lead() with the contact fields and the status
\* taken from the dict
_dict_to_lead(data) ==
    [Lead(data.id, data.email) EXCEPT !.status = data.status]

\* LeadService._load_lead: the sample lead for "demo", else None
_load_lead(id) ==
    IF id = DemoLead
    THEN [Lead(id, "jane.doe@techstart.com") EXCEPT !.status = "QUALIFIED"]
    ELSE Null

\* LeadService.get_lead: what it returns, and the cache it leaves
get_lead(c, id) ==
    IF Truthy(cache_get(c, lead_key(id)))
    THEN [result |-> _dict_to_lead(cache_get(c, lead_key(id))), cache |-> c]
    ELSE IF _load_lead(id) = Null THEN [result |-> Null, cache |-> c]
    ELSE [result |-> _load_lead(id),
          cache |-> cache_set(c, lead_key(id), lead_to_dict(_load_lead(id)), LeadTTL)]

\* Lead.update_status
update_status(l, new_status) == [l EXCEPT !.status = new_status]

\* Lead.convert_to_customer
convert_to_customer(l, customer_id) ==
    [l EXCEPT !.status = "CONVERTED", !.converted_to_customer_id = customer_id]

\* Lead.mark_as_lost
mark_as_lost(l, reason) == [l EXCEPT !.status = "LOST", !.lost_reason = reason]

\* LeadService.create_lead
create_lead(email) ==
    LET lead == Lead(LeadIds[leadCount + 1], email)
    IN  /\ leadCount < MaxLeads
        /\ leadCount' = leadCount + 1
        /\ cache' = cache_set(cache, lead_key(lead.id), lead_to_dict(lead), LeadTTL)
        /\ published' = publish(published, "lead.created", lead.id)
        /\ resp' = [op |-> "create_lead", status |-> "ok", lead_id |-> lead.id]
        /\ UNCHANGED <<now, clockSteps, authEnabled, customerCount>>
        /\ UNCHANGED notLeads

\* the 'status' values an update may carry; NoStatus: the update has no 'status'
NoStatus == "NoStatus"
StatusUpdates == {NoStatus, "CONTACTED", "QUALIFIED", "LOST", "ARCHIVED"}

\* what an operation on a lead found and left: the status before and after
Outcome(op, id, status, before, after) ==
    [op |-> op, lead_id |-> id, status |-> status, before |-> before, after |-> after]

\* LeadService.update_lead with updates = {'status': new_status} or without 'status'
update_lead(id, new_status) ==
    LET g == get_lead(cache, id)
        lead == g.result
        updated == IF new_status = NoStatus THEN lead ELSE update_status(lead, new_status)
    IN  /\ IF lead = Null
           THEN /\ resp' = Outcome("update_lead", id, "NotFound", None, None)
                /\ cache' = g.cache
                /\ UNCHANGED published
           ELSE IF new_status # NoStatus /\ new_status \notin LeadStatus
           THEN /\ resp' = Outcome("update_lead", id, "BadRequest", lead.status, lead.status)
                /\ cache' = g.cache
                /\ UNCHANGED published
           ELSE /\ Len(published) < MaxEvents
                /\ cache' = cache_set(g.cache, lead_key(id), lead_to_dict(updated), LeadTTL)
                /\ published' = publish(published, "lead.updated", id)
                /\ resp' = Outcome("update_lead", id, "ok", lead.status, updated.status)
        /\ UNCHANGED <<now, clockSteps, authEnabled, ldVars>>
        /\ UNCHANGED notLeads

\* CustomerService.create_customer, as convert_lead_to_customer calls it
create_customer(c, id, email) ==
    cache_set(c, customer_key(id), [id |-> id, email |-> email, status |-> "ACTIVE"],
              CustomerTTL)

\* LeadService.convert_lead_to_customer
convert_lead_to_customer(id) ==
    LET g == get_lead(cache, id)
        lead == g.result
        customer_id == CustomerIds[customerCount + 1]
        converted == convert_to_customer(lead, customer_id)
    IN  /\ IF lead = Null
           THEN /\ resp' = Outcome("convert_lead_to_customer", id, "NotFound", None, None)
                /\ cache' = g.cache
                /\ UNCHANGED <<published, customerCount>>
           ELSE IF lead.status \in TerminalLeadStatus
           THEN /\ resp' = Outcome("convert_lead_to_customer", id, "Conflict", lead.status,
                                    lead.status)
                /\ cache' = g.cache
                /\ UNCHANGED <<published, customerCount>>
           ELSE /\ customerCount < MaxCustomers
                /\ customerCount' = customerCount + 1
                /\ cache' = cache_set(create_customer(g.cache, customer_id, lead.email),
                                      lead_key(id), lead_to_dict(converted), LeadTTL)
                /\ published' = publish(publish(published, "customer.created", customer_id),
                                        "lead.converted", id)
                /\ resp' = Outcome("convert_lead_to_customer", id, "ok", lead.status,
                                    converted.status)
        /\ UNCHANGED <<now, clockSteps, authEnabled, leadCount>>
        /\ UNCHANGED notLeads

\* LeadService.mark_lead_as_lost
mark_lead_as_lost(id) ==
    LET g == get_lead(cache, id)
        lead == g.result
        lost == mark_as_lost(lead, "no budget")
    IN  /\ IF lead = Null
           THEN /\ resp' = Outcome("mark_lead_as_lost", id, "NotFound", None, None)
                /\ cache' = g.cache
                /\ UNCHANGED published
           ELSE IF lead.status \in TerminalLeadStatus
           THEN /\ resp' = Outcome("mark_lead_as_lost", id, "Conflict", lead.status, lead.status)
                /\ cache' = g.cache
                /\ UNCHANGED published
           ELSE /\ cache' = cache_set(g.cache, lead_key(id), lead_to_dict(lost), LeadTTL)
                /\ published' = publish(published, "lead.lost", id)
                /\ resp' = Outcome("mark_lead_as_lost", id, "ok", lead.status, lost.status)
        /\ UNCHANGED <<now, clockSteps, authEnabled, ldVars>>
        /\ UNCHANGED notLeads

InitLead ==
    /\ now = 0
    /\ clockSteps = 0
    /\ authEnabled = FALSE
    /\ cache = <<>>
    /\ published = <<>>
    /\ resp = NoResp
    /\ IdleQuotation
    /\ IdleConsumer
    /\ IdleBooking
    /\ IdleNotifications
    /\ IdleContracts
    /\ IdleLeads
    /\ IdleVendors
    /\ IdleProcessor
    /\ IdleDocuments
    /\ IdleDatabase
    /\ IdleProducer
    /\ IdleWorkers
    /\ IdleDelivery
    /\ IdleThreads

RequestLeadIds == {LeadIds[i] : i \in 1..(MaxLeads + 1)} \cup {DemoLead}

NextLead ==
    \/ create_lead("a@example.com")
    \/ \E id \in RequestLeadIds, st \in StatusUpdates : update_lead(id, st)
    \/ \E id \in RequestLeadIds : convert_lead_to_customer(id)
    \/ \E id \in RequestLeadIds : mark_lead_as_lost(id)
    \/ Tick(HalfHour)

SpecLead == InitLead /\ [][NextLead]_vars

\* ------------------------------------------------------------ vendor service
VendorIds == <<"V-1", "V-2", "V-3">>
DemoVendor == "demo"
VendorTTL == 3600
MaxVendors == 1
MaxRatings == 3
MaxVendorEvents == 4

VendorStatus == {"ACTIVE", "INACTIVE", "SUSPENDED", "PENDING_APPROVAL", "REJECTED"}

vendor_key(id) == <<"vendor", id>>

RECURSIVE GCD(_, _)
GCD(a, b) == IF b = 0 THEN a ELSE GCD(b, a % b)

\* a float that is the quotient of two naturals, kept exact: n / d in lowest terms
Quotient(n, d) == [num |-> n \div GCD(n, d), den |-> d \div GCD(n, d)]

\* Vendor(...) as create_vendor builds it: PENDING_APPROVAL, average_rating 0.0 over
\* no ratings
Vendor(id, email) ==
    [id |-> id, email |-> email, status |-> "PENDING_APPROVAL", onboarding_date |-> NoTime,
     average_rating |-> Quotient(0, 1), total_ratings |-> 0]

\* Vendor.to_dict
vendor_to_dict(v) ==
    [id |-> v.id, email |-> v.email, status |-> v.status,
     onboarding_date |-> v.onboarding_date, average_rating |-> v.average_rating,
     total_ratings |-> v.total_ratings]

\* VendorService._dict_to_vendor: a new Vendor() with the contact fields, the status
\* and the rating figures taken from the dict
_dict_to_vendor(data) ==
    [Vendor(data.id, data.email) EXCEPT !.status = data.status,
                                        !.average_rating = data.average_rating,
                                        !.total_ratings = data.total_ratings]

\* VendorService._load_vendor: the sample vendor for "demo" (4.2 over 25 ratings),
\* else None
_load_vendor(id) ==
    IF id = DemoVendor
    THEN [Vendor(id, "mike.johnson@globallogistics.com") EXCEPT
            !.status = "ACTIVE", !.average_rating = Quotient(42, 10), !.total_ratings = 25]
    ELSE Null

\* VendorService.get_vendor: what it returns, and the cache it leaves
get_vendor(c, id) ==
    IF Truthy(cache_get(c, vendor_key(id)))
    THEN [result |-> _dict_to_vendor(cache_get(c, vendor_key(id))), cache |-> c]
    ELSE IF _load_vendor(id) = Null THEN [result |-> Null, cache |-> c]
    ELSE [result |-> _load_vendor(id),
          cache |-> cache_set(c, vendor_key(id), vendor_to_dict(_load_vendor(id)), VendorTTL)]

\* Vendor.activate
activate(v) ==
    IF v.status = "PENDING_APPROVAL"
    THEN [v EXCEPT !.status = "ACTIVE", !.onboarding_date = now]
    ELSE IF v.status \in {"INACTIVE", "SUSPENDED"} THEN [v EXCEPT !.status = "ACTIVE"]
    ELSE v

\* Vendor.deactivate
deactivate(v) == [v EXCEPT !.status = "INACTIVE"]

\* Vendor.suspend
suspend(v) == [v EXCEPT !.status = "SUSPENDED"]

\* a faulty fold: the mean of the old average and the new rating
update_rating_halved(v, new_rating) ==
    [v EXCEPT !.total_ratings = v.total_ratings + 1,
              !.average_rating = Quotient(v.average_rating.num
                                            + new_rating * v.average_rating.den,
                                          2 * v.average_rating.den)]

\* Vendor.update_rating: total_score = average_rating * total_ratings + new_rating,
\* then average_rating = total_score / (total_ratings + 1)
update_rating(v, new_rating) ==
    LET total_score == [num |-> v.average_rating.num * v.total_ratings
                                  + new_rating * v.average_rating.den,
                        den |-> v.average_rating.den]
        total_ratings == v.total_ratings + 1
    IN  [v EXCEPT !.total_ratings = total_ratings,
                  !.average_rating = Quotient(total_score.num, total_score.den * total_ratings)]

\* VendorService.create_vendor (no service types given)
create_vendor(email) ==
    LET vendor == Vendor(VendorIds[vendorCount + 1], email)
    IN  /\ vendorCount < MaxVendors
        /\ vendorCount' = vendorCount + 1
        /\ cache' = cache_set(cache, vendor_key(vendor.id), vendor_to_dict(vendor), VendorTTL)
        /\ published' = publish(published, "vendor.created", vendor.id)
        /\ resp' = [op |-> "create_vendor", status |-> "ok", vendor_id |-> vendor.id,
                    before |-> None, after |-> vendor.status]
        /\ UNCHANGED <<now, clockSteps, authEnabled, ratingLog>>
        /\ UNCHANGED notVendors

\* the 'status' values an update_vendor_status request may carry
StatusRequests == VendorStatus \cup {"ARCHIVED"}

\* VendorService.update_vendor_status
update_vendor_status(id, status) ==
    LET g == get_vendor(cache, id)
        vendor == g.result
        assigned == [vendor EXCEPT !.status = status]
        updated == CASE status = "ACTIVE" -> activate(assigned)
                     [] status = "INACTIVE" -> deactivate(assigned)
                     [] status = "SUSPENDED" -> suspend(assigned)
                     [] OTHER -> assigned
    IN  /\ IF vendor = Null
           THEN /\ resp' = [op |-> "update_vendor_status", status |-> "NotFound",
                            vendor_id |-> id, before |-> None, after |-> None]
                /\ cache' = g.cache
                /\ UNCHANGED published
           ELSE IF status \notin VendorStatus
           THEN /\ resp' = [op |-> "update_vendor_status", status |-> "BadRequest",
                            vendor_id |-> id, before |-> vendor.status,
                            after |-> vendor.status]
                /\ cache' = g.cache
                /\ UNCHANGED published
           ELSE /\ Len(published) < MaxEvents
                /\ cache' = cache_set(g.cache, vendor_key(id), vendor_to_dict(updated),
                                      VendorTTL)
                /\ published' = publish(published, "vendor.status_changed", id)
                /\ resp' = [op |-> "update_vendor_status", status |-> "ok", vendor_id |-> id,
                            before |-> vendor.status, after |-> updated.status]
        /\ UNCHANGED <<now, clockSteps, authEnabled, vdVars>>
        /\ UNCHANGED notVendors

\* the overall_rating values a request may carry: n stands for the float n.0
Ratings == {0, 3, 4, 5}

\* VendorService.create_vendor_rating
create_vendor_rating(id, overall_rating) ==
    LET g == get_vendor(cache, id)
        vendor == g.result
        rated == update_rating(vendor, overall_rating)
    IN  /\ IF vendor = Null
           THEN /\ resp' = [op |-> "create_vendor_rating", status |-> "NotFound",
                            vendor_id |-> id, before |-> None, after |-> None]
                /\ cache' = g.cache
                /\ UNCHANGED <<published, ratingLog>>
           ELSE IF ~(1 <= overall_rating /\ overall_rating <= 5)
           THEN /\ resp' = [op |-> "create_vendor_rating", status |-> "BadRequest",
                            vendor_id |-> id, before |-> vendor.status,
                            after |-> vendor.status]
                /\ cache' = g.cache
                /\ UNCHANGED <<published, ratingLog>>
           ELSE /\ Len(ratingLog) < MaxRatings
                /\ Len(published) < MaxVendorEvents
                /\ ratingLog' = Append(ratingLog,
                                       [vendor_id |-> id, overall_rating |-> overall_rating,
                                        average_rating |-> rated.average_rating,
                                        total_ratings |-> rated.total_ratings])
                /\ cache' = cache_set(g.cache, vendor_key(id), vendor_to_dict(rated), VendorTTL)
                /\ published' = publish(published, "vendor.rating_created", id)
                /\ resp' = [op |-> "create_vendor_rating", status |-> "ok", vendor_id |-> id,
                            before |-> vendor.status, after |-> rated.status]
        /\ UNCHANGED <<now, clockSteps, authEnabled, vendorCount>>
        /\ UNCHANGED notVendors

InitVendor ==
    /\ now = 0
    /\ clockSteps = 0
    /\ authEnabled = FALSE
    /\ cache = <<>>
    /\ published = <<>>
    /\ resp = NoResp
    /\ IdleQuotation
    /\ IdleConsumer
    /\ IdleBooking
    /\ IdleNotifications
    /\ IdleContracts
    /\ IdleLeads
    /\ IdleVendors
    /\ IdleProcessor
    /\ IdleDocuments
    /\ IdleDatabase
    /\ IdleProducer
    /\ IdleWorkers
    /\ IdleDelivery
    /\ IdleThreads

RequestVendorIds == {VendorIds[i] : i \in 1..(MaxVendors + 1)} \cup {DemoVendor}

NextVendor ==
    \/ create_vendor("ops@carrier.example")
    \/ \E id \in RequestVendorIds, st \in StatusRequests : update_vendor_status(id, st)
    \/ Tick(HalfHour)

SpecVendor == InitVendor /\ [][NextVendor]_vars

NextRating ==
    \/ create_vendor("ops@carrier.example")
    \/ \E id \in RequestVendorIds, r \in Ratings : create_vendor_rating(id, r)
    \/ Tick(HalfHour)

SpecRating == InitVendor /\ [][NextRating]_vars

\* ---------------------------------------------------------- tracking service
DemoShipment == "demo"
ShipmentTTL == 3600
\* timedelta(days=1), in seconds
Day == 86400
MaxTrackingEvents == 4

ShipmentStatus ==
    {"BOOKED", "PICKUP_SCHEDULED", "PICKED_UP", "IN_TRANSIT", "CUSTOMS_CLEARANCE",
     "OUT_FOR_DELIVERY", "DELIVERED", "EXCEPTION"}

\* the events in the order of sorted(..., key=lambda x: x.event_time): by time, events
\* of equal time in the order they have in the list
RECURSIVE SortedByTime(_)
SortedByTime(events) ==
    IF events = <<>> THEN <<>>
    ELSE LET first == CHOOSE i \in 1..Len(events) :
                         \A j \in 1..Len(events) :
                            \/ events[i].event_time < events[j].event_time
                            \/ events[i].event_time = events[j].event_time /\ i <= j
         IN  <<events[first]>> \o
             SortedByTime([k \in 1..(Len(events) - 1) |->
                             IF k < first THEN events[k] ELSE events[k + 1]])

\* a shipment whose status follows the event that is latest by event_time
Shipment_add_latest_event(s, status, event_time) ==
    LET events == Append(s.tracking_events,
                         [status |-> status,
                          event_time |-> IF event_time = NoTime THEN now ELSE event_time])
    IN  [s EXCEPT !.tracking_events = events,
                  !.status = SortedByTime(events)[Len(events)].status]

\* Shipment.add_tracking_event: the event (event_time or utcnow()) is appended and
\* its status becomes the shipment's
Shipment_add_tracking_event(s, status, event_time) ==
    [s EXCEPT !.tracking_events =
                 Append(s.tracking_events,
                        [status |-> status,
                         event_time |-> IF event_time = NoTime THEN now ELSE event_time]),
              !.status = status]

\* Shipment.to_dict: the fields kept here, the events sorted by event_time
Shipment_to_dict(s) == [s EXCEPT !.tracking_events = SortedByTime(s.tracking_events)]

\* TrackingService._load_shipment: the sample shipment for "demo" with its three
\* events, else None
_load_shipment(id) ==
    IF id = DemoShipment
    THEN Shipment_add_tracking_event(
           Shipment_add_tracking_event(
             Shipment_add_tracking_event(
               [id |-> id, booking_id |-> "demo-booking",
                tracking_number |-> "FF20240819DEMO123", status |-> "IN_TRANSIT",
                tracking_events |-> <<>>],
               "BOOKED", now - 5 * Day),
             "PICKED_UP", now - 4 * Day),
           "IN_TRANSIT", now - 3 * Day)
    ELSE Null

\* a shorter list: PICKED_UP left out
NotifyStatusesShort == {"IN_TRANSIT", "OUT_FOR_DELIVERY", "DELIVERED"}

\* the statuses a shipment.status_changed event is published for
NotifyStatuses == {"PICKED_UP", "IN_TRANSIT", "OUT_FOR_DELIVERY", "DELIVERED"}

\* the 'status' values an add_tracking_event request may carry
TrackingRequests == ShipmentStatus \cup {"LOST"}

\* the 'event_time' values an add_tracking_event request may carry: none, a text
\* that is not a date, or a date (before the sample events, among them, after them)
EventTimes ==
    {[given |-> FALSE], [given |-> TRUE, iso |-> FALSE],
     [given |-> TRUE, iso |-> TRUE, time |-> 0 - 6 * Day],
     [given |-> TRUE, iso |-> TRUE, time |-> 0 - 4 * Day],
     [given |-> TRUE, iso |-> TRUE, time |-> Day]}

\* the parsing of event_time: the date, or utcnow() when there is none or the text
\* is not an ISO date
parsed_time(event_time) ==
    IF event_time.given /\ event_time.iso THEN event_time.time ELSE now

\* TrackingService.add_tracking_event
add_tracking_event(id, status, event_time) ==
    LET shipment == _load_shipment(id)
        updated == Shipment_add_tracking_event(shipment, status, parsed_time(event_time))
        tracking_updated == publish(published, "shipment.tracking_updated",
                                    [shipment_id |-> id, status |-> status])
    IN  /\ IF shipment = Null
           THEN /\ resp' = [op |-> "add_tracking_event", status |-> "NotFound",
                            shipment_id |-> id, event_status |-> status,
                            before |-> Len(published)]
                /\ UNCHANGED <<cache, published>>
           ELSE IF status \notin ShipmentStatus
           THEN /\ resp' = [op |-> "add_tracking_event", status |-> "BadRequest",
                            shipment_id |-> id, event_status |-> status,
                            before |-> Len(published)]
                /\ UNCHANGED <<cache, published>>
           ELSE /\ Len(published) + 2 <= MaxTrackingEvents
                /\ cache' = cache_delete(cache_set(cache, shipment_key(id),
                                                   Shipment_to_dict(updated), ShipmentTTL),
                                         tracking_key(updated.tracking_number))
                /\ published' =
                     IF status \in NotifyStatuses
                     THEN publish(tracking_updated, "shipment.status_changed",
                                  [shipment_id |-> id,
                                   tracking_number |-> updated.tracking_number,
                                   old_status |-> updated.status, new_status |-> status])
                     ELSE tracking_updated
                /\ resp' = [op |-> "add_tracking_event", status |-> "ok", shipment_id |-> id,
                            event_status |-> status, before |-> Len(published)]
        /\ UNCHANGED <<now, clockSteps, authEnabled, bkVars>>
        /\ UNCHANGED notBooking

NextTracking ==
    \/ \E id \in {DemoShipment, ShipmentIds[1]}, st \in TrackingRequests, t \in EventTimes :
          add_tracking_event(id, st, t)
    \/ Tick(HalfHour)

SpecTracking == InitBooking /\ [][NextTracking]_vars

\* ------------------------------------------------------------ event processor
MaxCreated == 4
FeedbackDelayHours == 24
HighValueThreshold == 10000

\* the members of NotificationType and NotificationPriority
NotificationTypeValues ==
    {"QUOTE_CREATED", "QUOTE_UPDATED", "QUOTE_EXPIRED", "BOOKING_CONFIRMED",
     "BOOKING_CANCELLED", "SHIPMENT_STATUS_UPDATE", "SHIPMENT_DELIVERED", "PAYMENT_DUE",
     "PAYMENT_RECEIVED", "DOCUMENT_READY", "SYSTEM_ALERT", "MARKETING", "REMINDER",
     "WELCOME", "PASSWORD_RESET"}
NotificationPriority == {"LOW", "NORMAL", "HIGH", "URGENT"}

\* the notification service as a caller inside the process sees it: the cache, the
\* events published, the notifications made, and the exception being raised if any
ServiceState ==
    [cache |-> cache, published |-> published, count |-> notifCount, made |-> created,
     error |-> None]

\* raise: the exception propagates through the statements that follow
Raise(s, exception) == [s EXCEPT !.error = exception]

\* NotificationService.create_notification called on state s: the state it leaves
NS_create_notification(s, recipient_id, notification_type, channels, priority, scheduled_at) ==
    IF s.error # None THEN s
    ELSE IF Upper(notification_type) \notin NotificationTypeValues THEN Raise(s, "BadRequest")
    ELSE IF Upper(priority) \notin NotificationPriority THEN Raise(s, "BadRequest")
    ELSE IF \E i \in 1..Len(channels) : Upper(channels[i]) \notin NotificationChannel
    THEN Raise(s, "BadRequest")
    ELSE LET parsed == ParsedChannels([i \in 1..Len(channels) |-> Upper(channels[i])])
             g == get_user_preferences(s.cache, recipient_id)
             final == FinalChannels(g.result, Upper(notification_type), parsed)
             notification ==
                 [id |-> NotificationIds[s.count + 1], recipient_id |-> recipient_id,
                  type |-> Upper(notification_type), status |-> "PENDING",
                  channels |-> final, requested |-> parsed, priority |-> Upper(priority),
                  scheduled_at |-> scheduled_at, delivery_attempts |-> DeliveryAttempts(final)]
         IN  [cache |-> cache_set(g.cache, notification_key(notification.id), notification,
                                  NotificationTTL),
              published |-> publish(s.published, "notification.created", notification.id),
              count |-> s.count + 1,
              made |-> Append(s.made, notification),
              error |-> None]

\* EventProcessor.event_mapping
event_mapping ==
    [t \in {"quote.created", "quote.updated", "quote.expired", "booking.created",
            "booking.confirmed", "booking.cancelled", "shipment.created",
            "shipment.status_changed", "shipment.delivered", "payment.due",
            "payment.received", "document.ready", "user.registered", "user.password_reset",
            "system.alert"} |->
        CASE t = "quote.created" -> "QUOTE_CREATED"
          [] t = "quote.updated" -> "QUOTE_UPDATED"
          [] t = "quote.expired" -> "QUOTE_EXPIRED"
          [] t \in {"booking.created", "booking.confirmed"} -> "BOOKING_CONFIRMED"
          [] t = "booking.cancelled" -> "BOOKING_CANCELLED"
          [] t \in {"shipment.created", "shipment.status_changed"} -> "SHIPMENT_STATUS_UPDATE"
          [] t = "shipment.delivered" -> "SHIPMENT_DELIVERED"
          [] t = "payment.due" -> "PAYMENT_DUE"
          [] t = "payment.received" -> "PAYMENT_RECEIVED"
          [] t = "document.ready" -> "DOCUMENT_READY"
          [] t = "user.registered" -> "WELCOME"
          [] t = "user.password_reset" -> "PASSWORD_RESET"
          [] OTHER -> "SYSTEM_ALERT"]

\* the names event_processor.py imports or defines at module level
ModuleNames ==
    {"json", "datetime", "Dict", "Any", "Optional", "NotificationType",
     "NotificationPriority", "EventProcessor"}

\* str.startswith on the event types delivered
startswith(t, prefix) ==
    CASE prefix = "contract." -> t \in {"contract.created", "contract.expiring",
                                        "contract.terminated"}
      [] prefix = "vendor." -> t \in {"vendor.created", "vendor.status_changed"}
      [] OTHER -> FALSE

\* EventProcessor._notify_sales_team: one notification for each member of the team
_notify_sales_team(s) ==
    LET Notify(st, member_id) ==
            NS_create_notification(
                st, member_id, "SYSTEM_ALERT", <<"email", "in_app">>, "HIGH", NoTime)
    IN  Notify(Notify(Notify(s, "sales-manager-1"), "sales-rep-1"), "sales-rep-2")

\* EventProcessor._process_quote_created
_process_quote_created(s, event_data) ==
    IF event_data.customer_id = None \/ event_data.quote_number = None THEN s
    ELSE LET notified == NS_create_notification(
                             s, event_data.customer_id, "QUOTE_CREATED",
                             <<"email", "in_app">>, "NORMAL", NoTime)
         IN  IF notified.error = None /\ event_data.total_cost > HighValueThreshold
             THEN _notify_sales_team(notified)
             ELSE notified

\* EventProcessor._schedule_feedback_request: timedelta is looked up when the line
\* that computes scheduled_at runs
_schedule_feedback_request(s, customer_id) ==
    IF s.error # None THEN s
    ELSE IF "timedelta" \notin ModuleNames THEN Raise(s, "NameError")
    ELSE NS_create_notification(
             s, customer_id, "SYSTEM_ALERT", <<"email", "in_app">>, "LOW",
             now + FeedbackDelayHours * 3600)

\* EventProcessor._process_shipment_delivered
_process_shipment_delivered(s, event_data) ==
    IF event_data.customer_id = None \/ event_data.shipment_number = None THEN s
    ELSE _schedule_feedback_request(
             NS_create_notification(
                 s, event_data.customer_id, "SHIPMENT_DELIVERED",
                 <<"email", "sms", "in_app">>, "HIGH", NoTime),
             event_data.customer_id)

\* EventProcessor._process_contract_event
_process_contract_event(s, event_type, event_data) ==
    IF event_data.vendor_id = None \/ event_data.contract_number = None THEN s
    ELSE IF event_type = "contract.expiring"
    THEN NS_create_notification(
             s, event_data.vendor_id, "SYSTEM_ALERT", <<"email", "in_app">>, "HIGH", NoTime)
    ELSE IF event_type = "contract.terminated"
    THEN NS_create_notification(
             s, event_data.vendor_id, "SYSTEM_ALERT", <<"email", "in_app">>, "URGENT", NoTime)
    ELSE s

\* EventProcessor._process_vendor_event
_process_vendor_event(s, event_type, event_data) ==
    IF event_data.vendor_id = None THEN s
    ELSE IF event_type = "vendor.status_changed"
    THEN NS_create_notification(
             s, event_data.vendor_id, "SYSTEM_ALERT", <<"email", "in_app">>, "HIGH", NoTime)
    ELSE s

\* the recipient a generic event implies: recipient_id or user_id or customer_id
ImpliedRecipient(event_data) ==
    IF event_data.recipient_id # None THEN event_data.recipient_id
    ELSE IF event_data.user_id # None THEN event_data.user_id
    ELSE event_data.customer_id

\* EventProcessor._process_generic_event
_process_generic_event(s, event_data, notification_type) ==
    IF ImpliedRecipient(event_data) = None THEN s
    ELSE NS_create_notification(
             s, ImpliedRecipient(event_data), notification_type, <<"in_app">>, "NORMAL",
             NoTime)

\* event_data.get(field): None when the event does not carry the field
Get(event_data, field) ==
    IF field \in DOMAIN event_data THEN event_data[field] ELSE None

\* EventProcessor._notify_operations_team: one notification for each member of the team
_notify_operations_team(s) ==
    LET Notify(st, member_id) ==
            NS_create_notification(
                st, member_id, "SYSTEM_ALERT", <<"email", "in_app">>, "NORMAL", NoTime)
    IN  Notify(Notify(Notify(s, "ops-manager-1"), "ops-coordinator-1"), "ops-coordinator-2")

\* EventProcessor._process_booking_confirmed
_process_booking_confirmed(s, event_data) ==
    IF Get(event_data, "customer_id") = None \/ Get(event_data, "booking_number") = None
    THEN s
    ELSE _notify_operations_team(
             NS_create_notification(
                 s, Get(event_data, "customer_id"), "BOOKING_CONFIRMED",
                 <<"email", "sms", "in_app">>, "HIGH", NoTime))

\* EventProcessor._process_shipment_status_changed
_process_shipment_status_changed(s, event_data) ==
    LET new_status == Get(event_data, "new_status")
        high == new_status \in {"DELAYED", "EXCEPTION", "CUSTOMS_HOLD", "DELIVERED",
                                "COMPLETED"}
    IN  IF \/ Get(event_data, "customer_id") = None
           \/ Get(event_data, "shipment_number") = None
           \/ new_status = None
        THEN s
        ELSE NS_create_notification(
                 s, Get(event_data, "customer_id"), "SHIPMENT_STATUS_UPDATE",
                 IF high THEN <<"in_app", "email", "sms">> ELSE <<"in_app", "email">>,
                 IF high THEN "HIGH" ELSE "NORMAL", NoTime)

\* what "except HTTPException" would catch
HTTPExceptions == {"BadRequest", "NotFound", "Conflict"}

\* what "except Exception" catches: every exception the handlers can raise
Exceptions == {"BadRequest", "NotFound", "Conflict", "NameError", "TypeError", "ValueError"}

\* the branch of process_event's if/elif chain taken for the event types delivered
Dispatch(s, event_type, event_data, notification_type) ==
    CASE event_type = "quote.created" -> _process_quote_created(s, event_data)
      [] event_type = "booking.confirmed" -> _process_booking_confirmed(s, event_data)
      [] event_type = "shipment.status_changed" ->
            _process_shipment_status_changed(s, event_data)
      [] event_type = "shipment.delivered" -> _process_shipment_delivered(s, event_data)
      [] startswith(event_type, "contract.") ->
            _process_contract_event(s, event_type, event_data)
      [] startswith(event_type, "vendor.") -> _process_vendor_event(s, event_type, event_data)
      [] OTHER -> _process_generic_event(s, event_data, notification_type)

\* EventProcessor.process_event
process_event(event_type, event_data) ==
    LET notification_type ==
            IF event_type \in DOMAIN event_mapping THEN event_mapping[event_type] ELSE None
        handled == IF notification_type = None THEN ServiceState
                   ELSE Dispatch(ServiceState, event_type, event_data, notification_type)
        caught == handled.error \in Exceptions
    IN  /\ Len(handled.made) <= MaxCreated
        /\ cache' = handled.cache
        /\ published' = handled.published
        /\ notifCount' = handled.count
        /\ created' = handled.made
        /\ errorsLogged' = IF caught THEN errorsLogged + 1 ELSE errorsLogged
        /\ resp' = [op |-> "process_event", event_type |-> event_type,
                    event_data |-> event_data, mapped |-> notification_type # None,
                    error |-> handled.error,
                    raised |-> IF caught THEN None ELSE handled.error,
                    before |-> Len(created)]
        /\ UNCHANGED <<now, clockSteps, authEnabled, wanted>>
        /\ UNCHANGED notProcessor

\* TemplateService._load_template: the sample template "quote-created"
TemplateService_load_template(template_id) ==
    IF template_id = "quote-created"
    THEN [id |-> template_id, template_type |-> "QUOTE_CREATED",
          supported_channels |-> <<"EMAIL", "IN_APP">>]
    ELSE Null

\* NotificationService._load_template
_load_template(template_id) == Null

\* send_bulk_notifications: the loop over the recipients
RECURSIVE BulkLoop(_, _, _, _, _)
BulkLoop(s, results, recipients, template, channels) ==
    IF recipients = <<>> THEN [state |-> s, results |-> results]
    ELSE LET made == NS_create_notification(
                         s, Head(recipients), template.template_type,
                         IF channels # <<>> THEN channels ELSE template.supported_channels,
                         "normal", NoTime)
         IN  IF made.error = None
             THEN BulkLoop(made, [results EXCEPT !.successful = results.successful + 1],
                           Tail(recipients), template, channels)
             ELSE BulkLoop(s, [results EXCEPT
                                  !.failed = results.failed + 1,
                                  !.errors = Append(results.errors,
                                                    [recipient_id |-> Head(recipients),
                                                     error |-> made.error])],
                           Tail(recipients), template, channels)

\* NotificationService.send_bulk_notifications; complete: template_data has every
\* variable of the template
send_bulk_notifications(recipients, template_id, complete, channels) ==
    LET template == _load_template(template_id)
        done == BulkLoop(ServiceState,
                         [total_recipients |-> Len(recipients), successful |-> 0,
                          failed |-> 0, errors |-> <<>>],
                         recipients, template, channels)
        Answer(status, results) ==
            [op |-> "send_bulk_notifications", status |-> status, recipients |-> recipients,
             template_id |-> template_id, complete |-> complete, results |-> results]
    IN  /\ IF template = Null
           THEN /\ resp' = Answer("NotFound", Null)
                /\ UNCHANGED <<cache, published, notifCount, created>>
           ELSE IF ~complete
           THEN /\ resp' = Answer("BadRequest", Null)
                /\ UNCHANGED <<cache, published, notifCount, created>>
           ELSE /\ Len(done.state.made) <= MaxCreated
                /\ cache' = done.state.cache
                /\ published' = publish(done.state.published, "notifications.bulk_sent",
                                        template_id)
                /\ notifCount' = done.state.count
                /\ created' = done.state.made
                /\ resp' = Answer("ok", done.results)
        /\ UNCHANGED <<now, clockSteps, authEnabled, wanted, errorsLogged>>
        /\ UNCHANGED notProcessor

\* the payloads of the events delivered: complete, high-value, and naming nobody
EventData ==
    LET Complete == [customer_id |-> "cust1", quote_number |-> "QN-1",
                     shipment_number |-> "SN-1", vendor_id |-> "vendor-1",
                     contract_number |-> "CN-1", total_cost |-> 500,
                     recipient_id |-> None, user_id |-> None]
    IN  {Complete,
         [Complete EXCEPT !.total_cost = 20000],
         [Complete EXCEPT !.customer_id = None, !.vendor_id = None]}

\* the event types delivered to process_event
DeliveredEventTypes ==
    {"quote.created", "shipment.delivered", "booking.created", "contract.expiring", "contract.terminated", "vendor.status_changed", "lead.converted"}

NextProcessor ==
    \/ \E t \in DeliveredEventTypes, d \in EventData : process_event(t, d)
    \/ \E rs \in {<<"cust1", "cust2">>}, id \in {"quote-created", "no-such-template"},
          complete \in BOOLEAN, chs \in {<<>>} :
          send_bulk_notifications(rs, id, complete, chs)
    \/ Tick(HalfHour)

SpecProcessor == InitNotif /\ [][NextProcessor]_vars

\* ----------------------------------------------- notification service: inbox
\* the sample notification of _load_notification and its recipient
DemoNotification == "demo"
DemoRecipient == "user-123"

\* NotificationService._dict_to_notification (notification_service.py:493-504): a new
\* Notification() that takes id, recipient, type, status and channels from the dict;
\* the delivery attempts are not restored
_dict_to_notification(data) ==
    [id |-> data.id, recipient_id |-> data.recipient_id, type |-> data.type,
     status |-> data.status, channels |-> data.channels, delivery_attempts |-> <<>>]

\* NotificationService._load_notification (notification_service.py:388-403): the
\* store holds the sample notification only
_load_notification(id) ==
    IF id = DemoNotification
    THEN [id |-> id, recipient_id |-> DemoRecipient, type |-> "QUOTE_CREATED",
          status |-> "DELIVERED", channels |-> <<"EMAIL", "IN_APP">>,
          delivery_attempts |-> <<>>]
    ELSE Null

\* NotificationService.get_notification (notification_service.py:98-114): what it
\* returns, and the cache it leaves
get_notification(c, id) ==
    IF Truthy(cache_get(c, notification_key(id)))
    THEN [result |-> _dict_to_notification(cache_get(c, notification_key(id))), cache |-> c]
    ELSE IF _load_notification(id) # Null
    THEN [result |-> _load_notification(id),
          cache |-> cache_set(c, notification_key(id), _load_notification(id),
                              NotificationTTL)]
    ELSE [result |-> Null, cache |-> c]

\* NotificationService.mark_as_read: the exception it raises (None if it returns), and
\* the cache and the published events it leaves
NS_mark_as_read(c, evs, notification_id, user_id) ==
    LET g == get_notification(c, notification_id)
        notification == g.result
    IN  IF notification = Null
        THEN [error |-> "NotFound", cache |-> g.cache, published |-> evs]
        ELSE IF notification.recipient_id # user_id
        THEN [error |-> "BadRequest", cache |-> g.cache, published |-> evs]
        ELSE [error |-> None,
              cache |-> cache_set(g.cache, notification_key(notification_id),
                                  [notification EXCEPT !.status = "READ"], NotificationTTL),
              published |-> publish(evs, "notification.read", notification_id)]

\* NotificationService.delete_notification, in the same form
NS_delete_notification(c, evs, notification_id, user_id) ==
    LET g == get_notification(c, notification_id)
        notification == g.result
    IN  IF notification = Null
        THEN [error |-> "NotFound", cache |-> g.cache, published |-> evs]
        ELSE IF notification.recipient_id # user_id
        THEN [error |-> "BadRequest", cache |-> g.cache, published |-> evs]
        ELSE [error |-> None,
              cache |-> cache_delete(g.cache, notification_key(notification_id)),
              published |-> publish(evs, "notification.deleted", notification_id)]

\* the except clauses of the two routes: NotFound is answered 404, every other
\* exception 500 (main.py:196-200 and main.py:231-235)
InboxStatus(error) ==
    CASE error = None -> 200
      [] error = "NotFound" -> 404
      [] OTHER -> 500

\* the outcome of an inbox request: the notification as get_notification returns it
\* before and after the request
InboxOutcome(op, r, notification_id, user_id) ==
    [op |-> op, status |-> InboxStatus(r.error), error |-> r.error,
     id |-> notification_id, user |-> user_id,
     before |-> get_notification(cache, notification_id).result,
     after |-> get_notification(r.cache, notification_id).result]

\* POST /api/v1/notifications/<notification_id>/read
mark_notification_read(user_id, notification_id) ==
    LET r == NS_mark_as_read(cache, published, notification_id, user_id)
    IN  /\ Len(published) < MaxEvents
        /\ cache' = r.cache
        /\ published' = r.published
        /\ resp' = InboxOutcome("mark_notification_read", r, notification_id, user_id)
        /\ UNCHANGED <<now, clockSteps, authEnabled, wanted, notifCount>>
        /\ UNCHANGED notNotifications

\* DELETE /api/v1/notifications/<notification_id>
delete_notification(user_id, notification_id) ==
    LET r == NS_delete_notification(cache, published, notification_id, user_id)
    IN  /\ Len(published) < MaxEvents
        /\ cache' = r.cache
        /\ published' = r.published
        /\ resp' = InboxOutcome("delete_notification", r, notification_id, user_id)
        /\ UNCHANGED <<now, clockSteps, authEnabled, wanted, notifCount>>
        /\ UNCHANGED notNotifications

InboxUsers == {"cust1", "cust2", DemoRecipient}
InboxIds == {"N-1", DemoNotification, "N-8"}

NextInbox ==
    \/ \E chs \in {<<>>, <<"SMS">>} : create_notification("cust1", "WELCOME", chs)
    \/ \E u \in InboxUsers, id \in InboxIds : mark_notification_read(u, id)
    \/ \E u \in InboxUsers, id \in InboxIds : delete_notification(u, id)
    \/ Tick(HalfHour)

SpecInbox == InitNotif /\ [][NextInbox]_vars

\* ----------------------------------------------- booking: document service
DocumentIds == <<"D-1", "D-2", "D-3">>
MaxDocuments == 2

\* the contents a file may have (b"" is the empty file) and the names it may carry
FileContents == {"bytes-1", "bytes-2"}
Filenames == {"bl.pdf", "run.exe", ""}

\* hashlib.sha256(content).hexdigest(): contents that differ have digests that differ
sha256(content) == <<"sha256", content>>

\* DocumentService._allowed_file
_allowed_file(filename) == filename \in {"bl.pdf"}

\* f"shipments/{shipment_id}/documents/{shipment_id}_{now:%Y%m%d_%H%M%S}_{name}"
storage_path(shipment_id, time, original_filename) ==
    <<"shipments", shipment_id, "documents", shipment_id, time, original_filename>>

\* storage.upload_file(content, path): the object is written, replacing what was there
storage_upload_file(o, path, content) ==
    [x \in DOMAIN o \cup {path} |-> IF x = path THEN content ELSE o[x]]

\* storage.download_file(path): the bytes, None if there is no such object
storage_download_file(o, path) == IF path \in DOMAIN o THEN o[path] ELSE None

\* DocumentService._load_document
_load_document(document_id) == Null

\* DocumentService.upload_document
upload_document(shipment_id, filename, content) ==
    IF filename = "" \/ ~_allowed_file(filename)
    THEN /\ resp' = [op |-> "upload_document", error |-> "BadRequest"]
         /\ UNCHANGED <<now, clockSteps, authEnabled, cache, published, objects, uploaded>>
         /\ UNCHANGED notDocuments
    ELSE LET path == storage_path(shipment_id, now, filename)
             document == [id |-> DocumentIds[Len(uploaded) + 1], shipment_id |-> shipment_id,
                          original_filename |-> filename, storage_path |-> path,
                          checksum |-> sha256(content)]
         IN  /\ Len(uploaded) < MaxDocuments
             /\ objects' = storage_upload_file(objects, path, content)
             /\ uploaded' = Append(uploaded, document)
             /\ resp' = [op |-> "upload_document", error |-> None, document |-> document]
             /\ UNCHANGED <<now, clockSteps, authEnabled, cache, published>>
             /\ UNCHANGED notDocuments

\* DocumentService.download_document: every exception of the download and of the
\* checksum test is raised as BadRequest
download_document(document_id) ==
    LET document == _load_document(document_id)
        file_content == storage_download_file(objects, document.storage_path)
        base == [op |-> "download_document", document_id |-> document_id]
    IN  /\ IF document = Null
           THEN resp' = base @@ [error |-> "NotFound", body |-> None]
           ELSE IF file_content = None \/ sha256(file_content) # document.checksum
           THEN resp' = base @@ [error |-> "BadRequest", body |-> None]
           ELSE resp' = base @@ [error |-> None, body |-> file_content]
        /\ UNCHANGED <<now, clockSteps, authEnabled, cache, published, objects, uploaded>>
        /\ UNCHANGED notDocuments

NextDocuments ==
    \/ \E s \in {"S-1", "S-2"}, f \in Filenames, b \in FileContents : upload_document(s, f, b)
    \/ \E id \in {DocumentIds[i] : i \in 1..(MaxDocuments + 1)} : download_document(id)
    \/ Tick(HalfHour)

SpecDocuments == InitBooking /\ [][NextDocuments]_vars

\* --------------------------------------------------- shared: database helpers
MaxUses == 3
MaxCalls == 2

\* what the block of a with db_transaction() statement may raise (None: it completes)
BlockOutcomes == {None, "ValueError", "IntegrityError"}

\* db_transaction without its finally clause
db_transaction_unreleased(begin_error, block_error, commit_error) ==
    IF begin_error # None
    THEN [calls |-> <<"begin", "rollback">>, entered |-> FALSE, committed |-> FALSE,
          raised |-> begin_error]
    ELSE IF block_error # None
    THEN [calls |-> <<"begin", "rollback">>, entered |-> TRUE, committed |-> FALSE,
          raised |-> block_error]
    ELSE IF commit_error # None
    THEN [calls |-> <<"begin", "commit", "rollback">>, entered |-> TRUE,
          committed |-> FALSE, raised |-> commit_error]
    ELSE [calls |-> <<"begin", "commit", "close">>, entered |-> TRUE, committed |-> TRUE,
          raised |-> None]

\* db_transaction: the calls it makes on db.session, whether the block was entered,
\* whether the commit went through, and the exception that leaves the with statement.
\* begin_error, block_error, commit_error: what begin(), the block and commit() raise
db_transaction(begin_error, block_error, commit_error) ==
    IF begin_error # None
    THEN [calls |-> <<"begin", "rollback", "close">>, entered |-> FALSE,
          committed |-> FALSE, raised |-> begin_error]
    ELSE IF block_error # None
    THEN [calls |-> <<"begin", "rollback", "close">>, entered |-> TRUE,
          committed |-> FALSE, raised |-> block_error]
    ELSE IF commit_error # None
    THEN [calls |-> <<"begin", "commit", "rollback", "close">>, entered |-> TRUE,
          committed |-> FALSE, raised |-> commit_error]
    ELSE [calls |-> <<"begin", "commit", "close">>, entered |-> TRUE, committed |-> TRUE,
          raised |-> None]

\* with db_transaction(): <block>
with_db_transaction(begin_error, block_error, commit_error) ==
    /\ Len(transactions) < MaxUses
    /\ transactions' = Append(transactions,
                              [block_error |-> IF begin_error # None THEN None
                                               ELSE block_error] @@
                              db_transaction(begin_error, block_error, commit_error))
    /\ resp' = [op |-> "db_transaction", status |-> "done"]
    /\ UNCHANGED <<now, clockSteps, authEnabled, cache, published, retried>>
    /\ UNCHANGED notDatabase

\* retry_db_operation(max_retries=3, delay=1.0)
max_retries == 3
delay == 1

\* what one call of the wrapped function may do: return, or raise
CallOutcomes == {"ok", "OperationalError", "DisconnectionError", "IntegrityError"}

\* a wrapper that catches every exception
AnyError == CallOutcomes \ {"ok"}

\* except (DisconnectionError, OperationalError)
Transient == {"DisconnectionError", "OperationalError"}

RECURSIVE RetryLoop(_, _, _, _)
\* the for loop of wrapper, from iteration attempt on; outcomes[k] is what the k-th
\* call of func does
RetryLoop(outcomes, attempt, slept, last_exception) ==
    IF attempt >= max_retries
    THEN [attempts |-> attempt, slept |-> slept, raised |-> last_exception]
    ELSE IF outcomes[attempt + 1] = "ok"
    THEN [attempts |-> attempt + 1, slept |-> slept, raised |-> None]
    ELSE IF outcomes[attempt + 1] \in Transient
    THEN IF attempt < max_retries - 1
         THEN RetryLoop(outcomes, attempt + 1, Append(slept, delay * 2 ^ attempt),
                        outcomes[attempt + 1])
         ELSE [attempts |-> attempt + 1, slept |-> slept, raised |-> outcomes[attempt + 1]]
    ELSE [attempts |-> attempt + 1, slept |-> slept, raised |-> outcomes[attempt + 1]]

\* wrapper(*args, **kwargs)
wrapper(outcomes) == RetryLoop(outcomes, 0, <<>>, None)

RECURSIVE Total(_)
Total(seq) == IF seq = <<>> THEN 0 ELSE Head(seq) + Total(Tail(seq))

\* a call of a function decorated with retry_db_operation(); time.sleep lets the
\* clock advance
retry_db_operation(outcomes) ==
    /\ Len(retried) < MaxCalls
    /\ retried' = Append(retried,
                         [outcomes |-> SubSeq(outcomes, 1, wrapper(outcomes).attempts)] @@
                         wrapper(outcomes))
    /\ now' = now + Total(wrapper(outcomes).slept)
    /\ cache' = Expired(cache, now + Total(wrapper(outcomes).slept))
    /\ resp' = [op |-> "retry_db_operation", status |-> "done"]
    /\ UNCHANGED <<clockSteps, authEnabled, published, transactions>>
    /\ UNCHANGED notDatabase

\* blocks run under db_transaction; begin() and commit() may fail as well
NextTransaction ==
    \E b \in {None, "InvalidRequestError"}, e \in BlockOutcomes,
       c \in {None, "OperationalError"} : with_db_transaction(b, e, c)

SpecTransaction == InitQuote /\ [][NextTransaction]_vars

\* calls of a wrapped function, for every way its attempts may turn out
NextRetry ==
    \E outcomes \in [1..max_retries -> CallOutcomes] : retry_db_operation(outcomes)

SpecRetry == InitQuote /\ [][NextRetry]_vars

\* ------------------------------------------------- shared: event producer
MaxSent == 3

\* what a caller hands to publish as its event: an Event (publish_event), or the
\* dict of event data the services pass after the event type
EventArguments == {"Event", "dict"}

\* what producer.send(...) followed by future.get(timeout=10) does
SendOutcomes == {"ok", "KafkaError", "KafkaTimeoutError", "TypeError"}

\* EventProducer.producer: the value of the property, the exception it raises and
\* the _producer it leaves.  in_app_context: whether flask.current_app is bound;
\* connects: whether KafkaProducer(...) reaches a broker
EventProducer_producer(bootstrap_servers, in_app_context, connects) ==
    IF ~kafkaInstalled
    THEN [value |-> None, raised |-> None, _producer |-> _producer]
    ELSE IF _producer # None
    THEN [value |-> _producer, raised |-> None, _producer |-> _producer]
    ELSE IF bootstrap_servers = None /\ ~in_app_context
    THEN [value |-> None, raised |-> "RuntimeError", _producer |-> _producer]
    ELSE IF ~connects
    THEN [value |-> None, raised |-> None, _producer |-> _producer]
    ELSE [value |-> "KafkaProducer", raised |-> None, _producer |-> "KafkaProducer"]

\* EventProducer.publish(topic, event)
EventProducer_publish(bootstrap_servers, in_app_context, connects, type, event, outcome) ==
    LET p == EventProducer_producer(bootstrap_servers, in_app_context, connects)
        base == [op |-> "publish", type |-> type]
    IN  /\ Len(sent) < MaxSent
        /\ _producer' = p._producer
        /\ IF p.raised # None
           THEN /\ resp' = base @@ [returned |-> None, raised |-> p.raised,
                                    failure |-> "producer unavailable"]
                /\ UNCHANGED sent
           ELSE IF p.value = None
           THEN /\ resp' = base @@ [returned |-> FALSE, raised |-> None,
                                    failure |-> "producer unavailable"]
                /\ UNCHANGED sent
           ELSE IF event = "dict"
           THEN /\ resp' = base @@ [returned |-> FALSE, raised |-> None,
                                    failure |-> "AttributeError"]
                /\ UNCHANGED sent
           ELSE IF outcome # "ok"
           THEN /\ resp' = base @@ [returned |-> FALSE, raised |-> None,
                                    failure |-> outcome]
                /\ UNCHANGED sent
           ELSE /\ resp' = base @@ [returned |-> TRUE, raised |-> None, failure |-> None]
                /\ sent' = Append(sent, type)
        /\ UNCHANGED <<now, clockSteps, authEnabled, cache, published, kafkaInstalled>>
        /\ UNCHANGED notProducer

\* a service process, with or without the Kafka client library
InitProducer ==
    /\ now = 0
    /\ clockSteps = 0
    /\ authEnabled = FALSE
    /\ cache = <<>>
    /\ published = <<>>
    /\ resp = NoResp
    /\ kafkaInstalled \in BOOLEAN
    /\ _producer = None
    /\ sent = <<>>
    /\ IdleQuotation
    /\ IdleConsumer
    /\ IdleBooking
    /\ IdleNotifications
    /\ IdleContracts
    /\ IdleLeads
    /\ IdleVendors
    /\ IdleProcessor
    /\ IdleDocuments
    /\ IdleDatabase
    /\ IdleWorkers
    /\ IdleDelivery
    /\ IdleThreads

\* events published from request handlers and from the consumer thread
NextProducer ==
    \E b \in {None, "kafka:9092"}, ctx \in BOOLEAN, connects \in BOOLEAN,
       t \in {"quote.accepted", "booking.confirmed", "notification.created"},
       e \in EventArguments,
       o \in SendOutcomes : EventProducer_publish(b, ctx, connects, t, e, o)

SpecProducer == InitProducer /\ [][NextProducer]_vars

\* ---------------------------------------- booking engine: confirm, step by step
\* confirm_booking as the statements a worker executes one after the other, so that
\* two workers can be inside it at once and a cache write can fail in the middle
\* (CacheManager.set logs a Redis error and returns False)
MaxConfirms == 2

\* the calls that have passed their checks and not yet built their shipment
Checked == {q \in Procs : calls[q].pc = "checked"}

\* confirm_booking, lines 157-167: get_booking, the status test, _get_quote
confirm_booking_begin(p, id, user, n) ==
    LET g == get_booking(cache, id, user)
        booking == g.result
        base == [op |-> "confirm_booking", proc |-> p, booking_id |-> id]
    IN  /\ calls[p].pc = "idle"
        /\ Len(shipments) + Cardinality(Checked) < MaxConfirms
        /\ cache' = g.cache
        /\ IF booking = Null
           THEN /\ resp' = base @@ [status |-> "NotFound"]
                /\ UNCHANGED calls
           ELSE IF booking.status # "PENDING"
           THEN /\ resp' = base @@ [status |-> "Conflict"]
                /\ UNCHANGED calls
           ELSE /\ calls' = [calls EXCEPT ![p] = [pc |-> "checked", booking |-> booking,
                                                  n |-> n]]
                /\ UNCHANGED resp
        /\ UNCHANGED <<now, clockSteps, authEnabled, published, bkVars>>
        /\ UNCHANGED <<qVars, evVars, ntVars, ctVars, ldVars, vdVars, epVars, dcVars, dbVars,
                       pdVars, dlVars, thVars>>

\* confirm_booking, lines 169-205: the containers are allocated, the shipment is
\* built with its BOOKED event, the booking object is set to CONFIRMED;
\* _save_booking and _save_shipment store nothing
confirm_booking_build(p) ==
    LET c == calls[p]
        shipment == [id |-> ShipmentIds[Len(shipments) + 1], booking_id |-> c.booking.id,
                     status |-> "BOOKED", container_ids |-> _allocate_containers(c.n),
                     tracking_events |-> <<[status |-> "BOOKED", event_time |-> now]>>]
    IN  /\ c.pc = "checked"
        /\ allocated' = allocated + c.n
        /\ shipments' = Append(shipments, shipment)
        /\ calls' = [calls EXCEPT ![p] =
                        [pc |-> "built", shipment |-> shipment,
                         booking |-> [c.booking EXCEPT !.status = "CONFIRMED",
                                                       !.confirmed_at = now]]]
        /\ UNCHANGED <<now, clockSteps, authEnabled, cache, published, resp, bookingsMade>>
        /\ UNCHANGED <<qVars, evVars, ntVars, ctVars, ldVars, vdVars, epVars, dcVars, dbVars,
                       pdVars, dlVars, thVars>>

\* confirm_booking, line 208: cache.set of the booking; written_ok tells whether
\* Redis took the write
confirm_booking_cache_booking(p, written_ok) ==
    LET c == calls[p]
    IN  /\ c.pc = "built"
        /\ cache' = IF written_ok
                    THEN cache_set(cache, booking_key(c.booking.id),
                                   booking_to_dict(c.booking), BookingTTL)
                    ELSE cache
        /\ calls' = [calls EXCEPT ![p].pc = "booking cached"]
        /\ UNCHANGED <<now, clockSteps, authEnabled, published, resp, bkVars>>
        /\ UNCHANGED <<qVars, evVars, ntVars, ctVars, ldVars, vdVars, epVars, dcVars, dbVars,
                       pdVars, dlVars, thVars>>

\* confirm_booking, lines 209-210: cache.set of the shipment under its id, then
\* under its tracking number; each write may be refused on its own
confirm_booking_cache_shipment(p, id_written, tracking_written) ==
    LET c == calls[p]
        c1 == IF id_written
              THEN cache_set(cache, shipment_key(c.shipment.id), c.shipment, BookingTTL)
              ELSE cache
    IN  /\ c.pc = "booking cached"
        /\ cache' = IF tracking_written
                    THEN cache_set(c1, tracking_key(c.shipment.id), c.shipment, BookingTTL)
                    ELSE c1
        /\ calls' = [calls EXCEPT ![p].pc = "shipment cached"]
        /\ UNCHANGED <<now, clockSteps, authEnabled, published, resp, bkVars>>
        /\ UNCHANGED <<qVars, evVars, ntVars, ctVars, ldVars, vdVars, epVars, dcVars, dbVars,
                       pdVars, dlVars, thVars>>

\* confirm_booking, lines 213-229: the two events are published, the shipment returned
confirm_booking_return(p) ==
    LET c == calls[p]
    IN  /\ c.pc = "shipment cached"
        /\ published' = publish(publish(published, "booking.confirmed",
                                        booking_confirmed_data(c.booking, c.shipment)),
                                "shipment.created", c.shipment.id)
        /\ resp' = [op |-> "confirm_booking", proc |-> p, booking_id |-> c.booking.id,
                    status |-> "ok", shipment_id |-> c.shipment.id]
        /\ calls' = [calls EXCEPT ![p] = IdleCall]
        /\ UNCHANGED <<now, clockSteps, authEnabled, cache, bkVars>>
        /\ UNCHANGED <<qVars, evVars, ntVars, ctVars, ldVars, vdVars, epVars, dcVars, dbVars,
                       pdVars, dlVars, thVars>>

\* bookings created and confirmed by two workers
NextConfirm ==
    \/ \E c \in {"cust1"} : create_booking("Q-1", c)
    \/ \E p \in Procs, id \in RequestBookingIds, u \in {"cust1"}, n \in Requirements :
          confirm_booking_begin(p, id, u, n)
    \/ \E p \in Procs : confirm_booking_build(p)
    \/ \E p \in Procs, w \in BOOLEAN : confirm_booking_cache_booking(p, w)
    \/ \E p \in Procs, w \in BOOLEAN, t \in BOOLEAN : confirm_booking_cache_shipment(p, w, t)
    \/ \E p \in Procs : confirm_booking_return(p)

SpecConfirm == InitBooking /\ [][NextConfirm]_vars

\* ------------------------------------------- quotation: POST /quotes, step by step
\* create_quote as the statements a worker executes one after the other, so that two
\* requests can be inside the handler at once

\* the requests that found no idempotency record and have not yet stored their quote
Missed == {q \in Procs : calls[q].pc = "missed"}

\* create_quote, lines 45-62: validation, then the lookup of the idempotency key
create_quote_lookup(p, key, data) ==
    /\ calls[p].pc = "idle"
    /\ Len(posts) + Cardinality({q \in Procs : calls[q].pc # "idle"}) < MaxPosts
    /\ IF ~(RequiredFields \subseteq DOMAIN data)
       THEN /\ resp' = [op |-> "create_quote", proc |-> p, status |-> 400]
            /\ posts' = Append(posts, PostRecord(key, data, 400, None, 0))
            /\ UNCHANGED calls
       ELSE IF Truthy(cache_get(cache, idempotency_key(key)))
       THEN LET existing == cache_get(cache, idempotency_key(key))
            IN  /\ resp' = [op |-> "create_quote", proc |-> p, status |-> 200,
                            body |-> existing]
                /\ posts' = Append(posts, PostRecord(key, data, 200, existing.quote_id, 0))
                /\ UNCHANGED calls
       ELSE /\ Len(quotes) + Cardinality(Missed) < MaxQuotes
            /\ calls' = [calls EXCEPT ![p] = [pc |-> "missed", key |-> key, data |-> data]]
            /\ UNCHANGED <<resp, posts>>
    /\ UNCHANGED <<now, clockSteps, authEnabled, cache, published, quotes, rules, lookup,
                   written>>
    /\ UNCHANGED <<evVars, bkVars, ntVars, ctVars, ldVars, vdVars, epVars, dcVars, dbVars,
                   pdVars, dlVars, thVars>>

\* create_quote, lines 64-131: the price is calculated, the quote is created, issued
\* and committed, quote.issued is published
create_quote_commit(p) ==
    LET c == calls[p]
    IN  /\ c.pc = "missed"
        /\ \E r \in QueryResults(Upper(c.data.service), LaneOf(c.data)) :
             LET l == _get_pricing_rules(cache, Upper(c.data.service), LaneOf(c.data), r)
                 quote == issue(Quote(QuoteIds[Len(quotes) + 1], CustomerOf(c.data),
                                      now + QuoteValidity))
             IN  /\ lookup' = LookupRecord(Upper(c.data.service), LaneOf(c.data), l)
                 /\ written' = written \ {<<Upper(c.data.service), LaneOf(c.data)>>}
                 /\ quotes' = Append(quotes, quote)
                 /\ published' = publish(published, "quote.issued", quote.quote_id)
                 /\ cache' = l.cache
                 /\ calls' = [calls EXCEPT ![p] = [pc |-> "committed", key |-> c.key,
                                                   data |-> c.data, quote |-> quote]]
        /\ UNCHANGED <<now, clockSteps, authEnabled, rules, posts, resp>>
        /\ UNCHANGED <<evVars, bkVars, ntVars, ctVars, ldVars, vdVars, epVars, dcVars, dbVars,
                       pdVars, dlVars, thVars>>

\* create_quote, lines 133-139: the answer is remembered under the key and returned
create_quote_remember(p) ==
    LET c == calls[p]
        result == to_dict(c.quote)
    IN  /\ c.pc = "committed"
        /\ cache' = IdemStore(cache, c.key, result)
        /\ resp' = [op |-> "create_quote", proc |-> p, status |-> 201, body |-> result]
        /\ posts' = Append(posts, PostRecord(c.key, c.data, 201, c.quote.quote_id, 1))
        /\ calls' = [calls EXCEPT ![p] = IdleCall]
        /\ UNCHANGED <<now, clockSteps, authEnabled, published, quotes, rules, lookup,
                       written>>
        /\ UNCHANGED <<evVars, bkVars, ntVars, ctVars, ldVars, vdVars, epVars, dcVars, dbVars,
                       pdVars, dlVars, thVars>>

\* keys the concurrent requests carry
RetryKeys == {"key-1", "key-2"}

\* keyed POST /quotes requests served by two workers
NextKeyed ==
    \/ \E p \in Procs, k \in RetryKeys, b \in Bodies : create_quote_lookup(p, k, b)
    \/ \E p \in Procs : create_quote_commit(p)
    \/ \E p \in Procs : create_quote_remember(p)

SpecKeyed == InitQuote /\ [][NextKeyed]_vars

\* ------------------------------------- quotation: GET and accept, step by step
\* get_quote and accept_quote as the statements a worker executes one after the
\* other, so that a read and an accept of one quote can overlap

\* an accept of quote id has returned success: quote.accepted has been published
\* for it and no worker is still between the commit and the return
AcceptReturned(id) ==
    /\ \E k \in 1..Len(published) :
          published[k].type = "quote.accepted" /\ published[k].data = id
    /\ \A q \in Procs : calls[q].pc = "accepted" => calls[q].quote_id # id

\* get_quote, lines 153-171: the cache, then the row and the access rule; after
\* tells whether the request started after an accept of the quote had returned
get_quote_read(p, token, id) ==
    LET cached_quote == cache_get(cache, quote_key(id))
        i == FindQuote(id)
        u == authenticate_request(token)
        base == [op |-> "get_quote", proc |-> p, quote_id |-> id,
                 after |-> AcceptReturned(id)]
    IN  /\ calls[p].pc = "idle"
        /\ IF Truthy(cached_quote)
           THEN /\ resp' = base @@ [status |-> 200, body |-> cached_quote]
                /\ UNCHANGED calls
           ELSE IF i = 0
           THEN /\ resp' = base @@ [status |-> 404]
                /\ UNCHANGED calls
           ELSE IF AccessDenied(u, quotes[i])
           THEN /\ resp' = base @@ [status |-> 403]
                /\ UNCHANGED calls
           ELSE /\ calls' = [calls EXCEPT ![p] =
                                [pc |-> "read", quote_id |-> id, result |-> to_dict(quotes[i]),
                                 after |-> AcceptReturned(id)]]
                /\ UNCHANGED resp
        /\ UNCHANGED <<now, clockSteps, authEnabled, cache, published, qVars>>
        /\ UNCHANGED <<evVars, bkVars, ntVars, ctVars, ldVars, vdVars, epVars, dcVars, dbVars,
                       pdVars, dlVars, thVars>>

\* get_quote, lines 173-176: the result is cached for five minutes and returned
get_quote_cache(p) ==
    LET c == calls[p]
    IN  /\ c.pc = "read"
        /\ cache' = cache_set(cache, quote_key(c.quote_id), c.result, QuoteCacheTTL)
        /\ resp' = [op |-> "get_quote", proc |-> p, quote_id |-> c.quote_id,
                    after |-> c.after, status |-> 200, body |-> c.result]
        /\ calls' = [calls EXCEPT ![p] = IdleCall]
        /\ UNCHANGED <<now, clockSteps, authEnabled, published, qVars>>
        /\ UNCHANGED <<evVars, bkVars, ntVars, ctVars, ldVars, vdVars, epVars, dcVars, dbVars,
                       pdVars, dlVars, thVars>>

\* accept_quote, lines 186-221: the row, the validity and access tests, accept() and
\* the commit, the publication of quote.accepted
accept_quote_commit(p, token, id) ==
    LET i == FindQuote(id)
        u == authenticate_request(token)
        base == [op |-> "accept_quote", proc |-> p, quote_id |-> id]
    IN  /\ calls[p].pc = "idle"
        /\ IF i = 0
           THEN /\ resp' = base @@ [status |-> 404]
                /\ UNCHANGED <<quotes, published, calls>>
           ELSE IF ~is_valid(quotes[i])
           THEN /\ resp' = base @@ [status |-> 400]
                /\ UNCHANGED <<quotes, published, calls>>
           ELSE IF AccessDenied(u, quotes[i])
           THEN /\ resp' = base @@ [status |-> 403]
                /\ UNCHANGED <<quotes, published, calls>>
           ELSE /\ quotes' = [quotes EXCEPT ![i] = accept(quotes[i])]
                /\ published' = publish(published, "quote.accepted", id)
                /\ calls' = [calls EXCEPT ![p] =
                                [pc |-> "accepted", quote_id |-> id,
                                 result |-> to_dict(accept(quotes[i]))]]
                /\ UNCHANGED resp
        /\ UNCHANGED <<now, clockSteps, authEnabled, cache, rules, posts, lookup, written>>
        /\ UNCHANGED <<evVars, bkVars, ntVars, ctVars, ldVars, vdVars, epVars, dcVars, dbVars,
                       pdVars, dlVars, thVars>>

\* accept_quote, lines 223-227: the cached copy is deleted and the quote returned
accept_quote_clear(p) ==
    LET c == calls[p]
    IN  /\ c.pc = "accepted"
        /\ cache' = cache_delete(cache, quote_key(c.quote_id))
        /\ resp' = [op |-> "accept_quote", proc |-> p, quote_id |-> c.quote_id,
                    status |-> 200, body |-> c.result]
        /\ calls' = [calls EXCEPT ![p] = IdleCall]
        /\ UNCHANGED <<now, clockSteps, authEnabled, published, qVars>>
        /\ UNCHANGED <<evVars, bkVars, ntVars, ctVars, ldVars, vdVars, epVars, dcVars, dbVars,
                       pdVars, dlVars, thVars>>

\* quotes created, read and accepted by two workers
NextReadAccept ==
    \/ \E b \in Bodies : create_quote(NoKey, b)
    \/ \E p \in Procs, t \in Tokens, id \in RequestIds : get_quote_read(p, t, id)
    \/ \E p \in Procs : get_quote_cache(p)
    \/ \E p \in Procs, t \in Tokens, id \in RequestIds : accept_quote_commit(p, t, id)
    \/ \E p \in Procs : accept_quote_clear(p)

SpecReadAccept == InitQuote /\ [][NextReadAccept]_vars

\* ------------------------------------- booking events reaching the notifications
\* the event types of the booking service that the claim on notifications is about
NotifiedTypes == {"booking.confirmed", "shipment.status_changed"}

\* the notifications consumer hands a published event to EventProcessor.process_event
\* (delivery is at least once: an event may be handed over again)
consume(k) ==
    /\ k \in 1..Len(published)
    /\ published[k].type \in NotifiedTypes
    /\ process_event(published[k].type, published[k].data)

\* the booking service confirms bookings and records tracking events, the
\* notifications service processes what was published
NextPipeline ==
    \/ \E c \in {"cust1"} : create_booking("Q-1", c)
    \/ \E id \in RequestBookingIds, u \in {"cust1"}, n \in Requirements :
          confirm_booking(id, u, n)
    \/ \E st \in TrackingRequests : add_tracking_event(DemoShipment, st, [given |-> FALSE])
    \/ \E k \in 1..MaxTrackingEvents : consume(k)

SpecPipeline == InitBooking /\ [][NextPipeline]_vars

\* ------------------------------------------ notifications: delivery of a notification
MaxAttemptsMade == 4

\* Notification.max_attempts
max_attempts == 3

\* the channel lists a notification is built with
ChannelLists == {<<"EMAIL">>, <<"SMS">>, <<"EMAIL", "IN_APP">>, <<"SMS", "EMAIL">>}

\* channel lists that name a channel more than once
RepeatingLists == {<<"EMAIL", "EMAIL">>, <<"EMAIL", "SMS", "EMAIL">>,
                   <<"EMAIL", "EMAIL", "EMAIL", "EMAIL">>}

\* the delivery attempts of n for channel ch, as positions in the list
AttemptsOf(n, ch) == {i \in 1..Len(n.delivery_attempts) : n.delivery_attempts[i].channel = ch}

\* the first attempt of channel ch whose status is in the set, 0 if none ("for attempt
\* in self.delivery_attempts: if ...: ...; break")
FirstAttempt(n, ch, statuses) ==
    LET S == {i \in AttemptsOf(n, ch) : n.delivery_attempts[i].status \in statuses}
    IN  IF S = {} THEN 0 ELSE CHOOSE i \in S : \A j \in S : i <= j

\* the attempts of n with attempt i, if any, set to status
WithAttempt(n, i, status) ==
    IF i = 0 THEN n.delivery_attempts
    ELSE [n.delivery_attempts EXCEPT ![i].status = status]

\* the channels of n as a set
ChannelsOf(n) == {n.channels[i] : i \in 1..Len(n.channels)}

\* Notification.add_delivery_attempt
Notification_add_delivery_attempt(n, ch) ==
    [n EXCEPT !.delivery_attempts =
         Append(n.delivery_attempts,
                [channel |-> ch, status |-> "PENDING",
                 attempt_number |-> Cardinality(AttemptsOf(n, ch)) + 1])]

\* Notification.can_retry
can_retry(n, ch) == Cardinality(AttemptsOf(n, ch)) < max_attempts

\* Notification.mark_as_sent
Notification_mark_as_sent(n, ch) ==
    [n EXCEPT !.delivery_attempts = WithAttempt(n, FirstAttempt(n, ch, {"PENDING"}), "SENT"),
              !.status = IF n.status = "PENDING" THEN "SENT" ELSE n.status]

\* Notification.mark_as_delivered
Notification_mark_as_delivered(n, ch) ==
    LET attempts == WithAttempt(n, FirstAttempt(n, ch, {"SENT"}), "DELIVERED")
        all_delivered == \A c \in ChannelsOf(n) :
                            \E i \in 1..Len(attempts) :
                                attempts[i].channel = c /\ attempts[i].status = "DELIVERED"
    IN  [n EXCEPT !.delivery_attempts = attempts,
                  !.status = IF all_delivered THEN "DELIVERED" ELSE n.status]

\* Notification.mark_as_read
Notification_mark_as_read(n) == [n EXCEPT !.status = "READ"]

\* Notification.mark_as_failed
Notification_mark_as_failed(n, ch) ==
    LET attempts == WithAttempt(n, FirstAttempt(n, ch, {"PENDING", "SENT"}), "FAILED")
        all_failed == \A c \in ChannelsOf(n) :
                         \A i \in 1..Len(attempts) :
                             attempts[i].channel = c => attempts[i].status = "FAILED"
    IN  [n EXCEPT !.delivery_attempts = attempts,
                  !.status = IF all_failed THEN "FAILED" ELSE n.status]

\* what every step on the notification under delivery leaves alone
DeliveryFrame ==
    /\ UNCHANGED <<now, clockSteps, authEnabled, cache>>
    /\ UNCHANGED notDelivery

\* Notification(...): a new notification, PENDING; attempted tells whether the
\* builder adds a delivery attempt for each channel (create_notification does,
\* send_test_notification does not)
new_notification(channels, attempted) ==
    /\ noteObj = Null
    /\ noteObj' = [status |-> "PENDING", channels |-> channels,
                   delivery_attempts |-> IF attempted THEN DeliveryAttempts(channels)
                                         ELSE <<>>]
    /\ resp' = [op |-> "Notification", channels |-> channels]
    /\ UNCHANGED published
    /\ DeliveryFrame

\* a call of notification.add_delivery_attempt(channel)
add_delivery_attempt(ch) ==
    /\ noteObj # Null
    /\ ch \in ChannelsOf(noteObj)
    /\ Len(noteObj.delivery_attempts) < MaxAttemptsMade
    /\ noteObj' = Notification_add_delivery_attempt(noteObj, ch)
    /\ resp' = [op |-> "add_delivery_attempt", channel |-> ch, could |-> can_retry(noteObj, ch)]
    /\ UNCHANGED published
    /\ DeliveryFrame

\* a call of notification.mark_as_sent(channel)
mark_as_sent(ch) ==
    /\ noteObj # Null
    /\ ch \in ChannelsOf(noteObj)
    /\ noteObj' = Notification_mark_as_sent(noteObj, ch)
    /\ resp' = [op |-> "mark_as_sent", channel |-> ch, from |-> noteObj.status]
    /\ UNCHANGED published
    /\ DeliveryFrame

\* a call of notification.mark_as_delivered(channel)
mark_as_delivered(ch) ==
    /\ noteObj # Null
    /\ ch \in ChannelsOf(noteObj)
    /\ noteObj' = Notification_mark_as_delivered(noteObj, ch)
    /\ resp' = [op |-> "mark_as_delivered", channel |-> ch, from |-> noteObj.status]
    /\ UNCHANGED published
    /\ DeliveryFrame

\* a call of notification.mark_as_read()
mark_as_read ==
    /\ noteObj # Null
    /\ noteObj' = Notification_mark_as_read(noteObj)
    /\ resp' = [op |-> "mark_as_read", from |-> noteObj.status]
    /\ UNCHANGED published
    /\ DeliveryFrame

\* a call of notification.mark_as_failed(channel, error_message)
mark_as_failed(ch) ==
    /\ noteObj # Null
    /\ ch \in ChannelsOf(noteObj)
    /\ noteObj' = Notification_mark_as_failed(noteObj, ch)
    /\ resp' = [op |-> "mark_as_failed", channel |-> ch, from |-> noteObj.status]
    /\ UNCHANGED published
    /\ DeliveryFrame

\* DeliveryService._load_channel_configurations and _get_channel_config: the channels
\* that have a configuration, and those whose configuration is enabled
ConfiguredChannels == {"EMAIL", "SMS", "PUSH", "IN_APP"}
EnabledChannels == {"EMAIL", "PUSH", "IN_APP"}

\* what _deliver_through_channel does for one channel: it reports success, reports
\* a failure, or raises
ChannelOutcomes == {"success", "failure", "raises"}

\* deliver_notification: the loop over notification.channels from position i on;
\* outcomes[i] is what the delivery through channel i does if it is tried
RECURSIVE DeliverLoop(_, _, _, _)
DeliverLoop(n, outcomes, i, successful_channels) ==
    IF i > Len(n.channels) THEN [notification |-> n, successful_channels |-> successful_channels]
    ELSE LET channel == n.channels[i]
         IN  IF channel \notin ConfiguredChannels \/ channel \notin EnabledChannels
             THEN DeliverLoop(n, outcomes, i + 1, successful_channels)
             ELSE IF outcomes[i] = "success"
             THEN DeliverLoop(Notification_mark_as_sent(n, channel), outcomes, i + 1,
                              successful_channels + 1)
             ELSE DeliverLoop(Notification_mark_as_failed(n, channel), outcomes, i + 1,
                              successful_channels)

\* DeliveryService.deliver_notification
deliver_notification(outcomes) ==
    LET done == DeliverLoop(noteObj, outcomes, 1, 0)
    IN  /\ noteObj # Null
        /\ Len(outcomes) = Len(noteObj.channels)
        /\ Len(published) < MaxEvents
        /\ noteObj' = done.notification
        /\ published' = publish(published, "notification.delivery_attempted",
                                [successful_channels |-> done.successful_channels,
                                 overall_success |-> done.successful_channels > 0])
        /\ resp' = [op |-> "deliver_notification", from |-> noteObj.status,
                    overall_success |-> done.successful_channels > 0]
        /\ DeliveryFrame

\* the outcomes of the deliveries of one call
OutcomeLists == UNION {[1..k -> ChannelOutcomes] : k \in 1..2}

\* a notification is built and delivery attempts are added to it
NextAttempts ==
    \/ \E chs \in ChannelLists \cup RepeatingLists, attempted \in BOOLEAN :
          new_notification(chs, attempted)
    \/ \E ch \in NotificationChannel : add_delivery_attempt(ch)
    \/ \E ch \in NotificationChannel : mark_as_failed(ch)

SpecAttempts == InitNotif /\ [][NextAttempts]_vars

\* a notification is built, delivered, and marked by the callers of its methods
NextDelivery ==
    \/ \E chs \in ChannelLists, attempted \in BOOLEAN : new_notification(chs, attempted)
    \/ \E ch \in NotificationChannel : mark_as_sent(ch)
    \/ \E ch \in NotificationChannel : mark_as_delivered(ch)
    \/ mark_as_read
    \/ \E ch \in NotificationChannel : mark_as_failed(ch)
    \/ \E outcomes \in OutcomeLists : deliver_notification(outcomes)

SpecDelivery == InitNotif /\ [][NextDelivery]_vars

\* ----------------------------------------------- contract service: the dates
MaxContractEvents == 4

\* the 'updates' an update_contract request may carry; NoTime stands for a text
\* that _parse_datetime does not parse (it returns None)
ContractUpdates ==
    {[title |-> "new title"], [end_date |-> 5], [end_date |-> 15], [end_date |-> NoTime],
     [start_date |-> 30], [start_date |-> NoTime], [start_date |-> 12, end_date |-> 18]}

\* update_contract, lines 157-162: the dates after the updates are applied
UpdatedDates(contract, updates) ==
    [contract EXCEPT
        !.start_date = IF "start_date" \in DOMAIN updates THEN updates.start_date ELSE @,
        !.end_date = IF "end_date" \in DOMAIN updates THEN updates.end_date ELSE @]

\* ContractService.update_contract; Contract.to_dict calls self.start_date.isoformat(),
\* which raises AttributeError when the start date is None
update_contract(id, updates) ==
    LET g == get_contract(cache, id)
        contract == g.result
        updated == UpdatedDates(contract, updates)
        base == [op |-> "update_contract", contract_id |-> id, updates |-> updates]
    IN  /\ IF contract = Null
           THEN /\ resp' = base @@ [status |-> "NotFound"]
                /\ cache' = g.cache
                /\ UNCHANGED published
           ELSE IF contract.status \notin {"DRAFT", "PENDING_APPROVAL"}
           THEN /\ resp' = base @@ [status |-> "Conflict"]
                /\ cache' = g.cache
                /\ UNCHANGED published
           ELSE IF updated.start_date = NoTime
           THEN /\ resp' = base @@ [status |-> "AttributeError"]
                /\ cache' = g.cache
                /\ UNCHANGED published
           ELSE /\ Len(published) < MaxContractEvents
                /\ cache' = cache_set(g.cache, contract_key(id), contract_to_dict(updated),
                                      ContractTTL)
                /\ published' = publish(published, "contract.updated", id)
                /\ resp' = base @@ [status |-> "ok"]
        /\ UNCHANGED <<now, clockSteps, authEnabled, ctVars>>
        /\ UNCHANGED notContracts

\* Contract.renew
renew(c, new_end_date) == [c EXCEPT !.end_date = new_end_date]

\* ContractService.renew_contract
renew_contract(id, new_end_date) ==
    LET g == get_contract(cache, id)
        contract == g.result
        base == [op |-> "renew_contract", contract_id |-> id, new_end_date |-> new_end_date]
    IN  /\ IF contract = Null
           THEN /\ resp' = base @@ [status |-> "NotFound"]
                /\ cache' = g.cache
                /\ UNCHANGED published
           ELSE IF contract.status # "ACTIVE"
           THEN /\ resp' = base @@ [status |-> "Conflict"]
                /\ cache' = g.cache
                /\ UNCHANGED published
           ELSE IF new_end_date = NoTime \/ new_end_date <= now
           THEN /\ resp' = base @@ [status |-> "BadRequest"]
                /\ cache' = g.cache
                /\ UNCHANGED published
           ELSE /\ Len(published) < MaxContractEvents
                /\ cache' = cache_set(g.cache, contract_key(id),
                                      contract_to_dict(renew(contract, new_end_date)),
                                      ContractTTL)
                /\ published' = publish(published, "contract.renewed", id)
                /\ resp' = base @@ [status |-> "ok"]
        /\ UNCHANGED <<now, clockSteps, authEnabled, ctVars>>
        /\ UNCHANGED notContracts

\* the new end dates a renew_contract request may carry
RenewalDates == {NoTime, 0, 5, 25}

\* contracts created, updated, activated and renewed
NextContractDates ==
    \/ \E d \in ContractDates : create_contract("vendor-1", d[1], d[2])
    \/ \E id \in RequestContractIds, u \in ContractUpdates : update_contract(id, u)
    \/ \E id \in RequestContractIds : activate_contract(id)
    \/ \E id \in RequestContractIds, d \in RenewalDates : renew_contract(id, d)

SpecContractDates == InitContract /\ [][NextContractDates]_vars

\* ------------------------------------ booking engine: allocation of containers
MaxAllocated == 4

\* ContainerType: the values of the enumeration that requests name here
ContainerType == {"20FT_DRY", "40FT_DRY"}

\* the container_details a confirm_booking request may carry: a list of
\* requirements, each a type and a quantity.  "DRY_20" is what
\* requirement.get('type', 'DRY_20') gives a requirement without a type; it is the
\* name of a member, not a value of the enumeration
ContainerDetails ==
    {<<>>,
     <<[type |-> "20FT_DRY", quantity |-> 1]>>,
     <<[type |-> "20FT_DRY", quantity |-> 1], [type |-> "40FT_DRY", quantity |-> 1]>>,
     <<[type |-> "20FT_DRY", quantity |-> 2], [type |-> "DRY_20", quantity |-> 1]>>,
     <<[type |-> "DRY_20", quantity |-> 1], [type |-> "20FT_DRY", quantity |-> 1]>>}

\* BookingEngine._allocate_containers: the loop over the requirements from position
\* i on.  count: the containers set to ALLOCATED and saved so far; short: the types
\* of which _find_available_containers finds fewer than asked
RECURSIVE AllocateLoop(_, _, _, _)
AllocateLoop(container_requirements, short, i, count) ==
    IF i > Len(container_requirements) THEN [count |-> count, error |-> None]
    ELSE LET requirement == container_requirements[i]
         IN  IF requirement.type \notin ContainerType
             THEN [count |-> count, error |-> "ValueError"]
             ELSE IF requirement.type \in short
             THEN [count |-> count, error |-> "BadRequest"]
             ELSE AllocateLoop(container_requirements, short, i + 1,
                               count + requirement.quantity)

\* BookingEngine.confirm_booking called with container_details
confirm_booking_containers(id, user, container_details, short) ==
    LET g == get_booking(cache, id, user)
        booking == g.result
        done == AllocateLoop(container_details, short, 1, 0)
        shipment == [id |-> ShipmentIds[Len(shipments) + 1], booking_id |-> id,
                     status |-> "BOOKED", container_ids |-> _allocate_containers(done.count),
                     tracking_events |-> <<[status |-> "BOOKED", event_time |-> now]>>]
        confirmed == [booking EXCEPT !.status = "CONFIRMED", !.confirmed_at = now]
        base == [op |-> "confirm_booking", booking_id |-> id, before |-> allocated]
    IN  /\ IF booking = Null
           THEN /\ resp' = base @@ [status |-> "NotFound"]
                /\ cache' = g.cache
                /\ UNCHANGED <<shipments, allocated, published>>
           ELSE IF booking.status # "PENDING"
           THEN /\ resp' = base @@ [status |-> "Conflict"]
                /\ cache' = g.cache
                /\ UNCHANGED <<shipments, allocated, published>>
           ELSE IF done.error # None
           THEN /\ allocated + done.count <= MaxAllocated
                /\ resp' = base @@ [status |-> done.error]
                /\ cache' = g.cache
                /\ allocated' = allocated + done.count
                /\ UNCHANGED <<shipments, published>>
           ELSE /\ Len(shipments) < MaxBookings
                /\ allocated + done.count <= MaxAllocated
                /\ allocated' = allocated + done.count
                /\ shipments' = Append(shipments, shipment)
                /\ cache' = cache_set(cache_set(cache_set(g.cache,
                                booking_key(id), booking_to_dict(confirmed), BookingTTL),
                                shipment_key(shipment.id), shipment, BookingTTL),
                                tracking_key(shipment.id), shipment, BookingTTL)
                /\ published' = publish(publish(published, "booking.confirmed",
                                                booking_confirmed_data(confirmed, shipment)),
                                        "shipment.created", shipment.id)
                /\ resp' = base @@ [status |-> "ok"]
        /\ UNCHANGED <<now, clockSteps, authEnabled, bookingsMade>>
        /\ UNCHANGED notBooking

\* bookings created, and confirmed with container requirements
NextAllocation ==
    \/ \E c \in {"cust1"} : create_booking("Q-1", c)
    \/ \E id \in RequestBookingIds, u \in {"cust1"}, d \in ContainerDetails,
          short \in SUBSET {"40FT_DRY"} :
          confirm_booking_containers(id, u, d, short)
    \/ \E id \in RequestBookingIds, u \in {"cust1"} : GetBooking(id, u)

SpecAllocation == InitBooking /\ [][NextAllocation]_vars

\* ------------------------------------------------ quotation: the price of a quote
\* amounts are in cents
Cents == 100

\* the request bodies priced here: a service, a lane, accessorials and containers
PricedBodies ==
    {[mode |-> "SEA", service |-> s, origin |-> "SGSIN", destination |-> d,
      customer_id |-> "cust1", accessorials |-> a, containers |-> c] :
        s \in {"FCL", "lcl", "AIR", "RAIL"}, d \in {"EGALY", "USNYC"},
        a \in {<<>>, <<"FUEL">>, <<"PORT_FEES", "SECURITY">>},
        c \in {<<>>, <<[type |-> "40GP", count |-> 2]>>}}

\* sum of the field f over the records of a sequence
RECURSIVE FieldSum(_, _)
FieldSum(seq, f) == IF seq = <<>> THEN 0 ELSE seq[1][f] + FieldSum(Tail(seq), f)

\* formula.get('base_rates', {}) looked up for a container type: the rates of the
\* seeded rule, the default 2000 for a rule whose formula names none
BaseRate(pricing_rules, container_type) ==
    IF pricing_rules.id = 1
    THEN CASE container_type = "20GP" -> 1800 * Cents
           [] container_type = "40GP" -> 2200 * Cents
           [] container_type = "40HC" -> 2400 * Cents
           [] OTHER -> 2000 * Cents
    ELSE 2000 * Cents

\* PricingEngine._calculate_fcl_price for a request that names containers
RECURSIVE _calculate_fcl_price(_, _)
_calculate_fcl_price(containers, pricing_rules) ==
    IF containers = <<>> THEN 0
    ELSE BaseRate(pricing_rules, containers[1].type) * containers[1].count
         + _calculate_fcl_price(Tail(containers), pricing_rules)

\* PricingEngine._calculate_base_price; without cargo in the request the LCL price is
\* max(weight charge, volume charge, minimum charge) = 500 for the default and the
\* seeded rates alike, and the air price max(100 * rate, minimum) = 500 or 450
_calculate_base_price(data, pricing_rules) ==
    CASE Upper(data.service) = "FCL" ->
           IF data.containers = <<>> THEN 2000 * Cents
           ELSE _calculate_fcl_price(data.containers, pricing_rules)
      [] Upper(data.service) = "LCL" -> 500 * Cents
      [] Upper(data.service) = "AIR" -> 500 * Cents
      [] OTHER -> 1000 * Cents

\* PricingEngine._get_fuel_surcharge_rate
_get_fuel_surcharge_rate(origin, destination) ==
    CASE <<origin, destination>> = <<"SGSIN", "EGALY">> -> 144 * Cents
      [] <<origin, destination>> = <<"SGSIN", "USNYC">> -> 180 * Cents
      [] <<origin, destination>> = <<"SGSIN", "NLRTM">> -> 132 * Cents
      [] OTHER -> 120 * Cents

Has(accessorials, code) == \E i \in 1..Len(accessorials) : accessorials[i] = code

\* PricingEngine._calculate_surcharges: the amounts are floats
_calculate_surcharges(data) ==
    (IF Has(data.accessorials, "FUEL")
     THEN <<[code |-> "FUEL",
             amount |-> _get_fuel_surcharge_rate(data.origin, data.destination)]>>
     ELSE <<>>) \o
    (IF Has(data.accessorials, "PORT_FEES")
     THEN <<[code |-> "PORT_FEES", amount |-> 150 * Cents]>> ELSE <<>>) \o
    (IF Has(data.accessorials, "DOCUMENTATION")
     THEN <<[code |-> "DOCUMENTATION", amount |-> 75 * Cents]>> ELSE <<>>) \o
    (IF Has(data.accessorials, "SECURITY")
     THEN <<[code |-> "SECURITY", amount |-> 50 * Cents]>> ELSE <<>>)

\* PricingEngine._create_line_items: the base item, then an item for each surcharge
_create_line_items(base_price, surcharges) ==
    <<[type |-> "BASE", quantity |-> 1, unit_price |-> base_price]>> \o
    [i \in 1..Len(surcharges) |->
        [type |-> "SURCHARGE", quantity |-> 1, unit_price |-> surcharges[i].amount]]

\* PricingEngine._fallback_pricing: a fuel surcharge in the total, the base item only
_fallback_pricing(data) ==
    LET base_price == CASE Upper(data.service) = "FCL" -> 2000 * Cents
                        [] Upper(data.service) = "LCL" -> 800 * Cents
                        [] Upper(data.service) = "AIR" -> 500 * Cents
                        [] OTHER -> 1000 * Cents
        surcharges == <<[code |-> "FUEL", amount |-> 120 * Cents]>>
    IN  [base |-> base_price, surcharges |-> surcharges,
         total |-> base_price + FieldSum(surcharges, "amount"),
         items |-> <<[type |-> "BASE", quantity |-> 1, unit_price |-> base_price]>>,
         fallback |-> TRUE]

\* PricingEngine.calculate_price for the rule the lookup gave.  The base price is a
\* Decimal and the surcharges are floats: adding a sum of floats that is not the
\* integer 0 to it raises TypeError, which the method answers with None (Null)
price_of(data, pricing_rules) ==
    IF pricing_rules = Null THEN _fallback_pricing(data)
    ELSE LET base_price == _calculate_base_price(data, pricing_rules)
             surcharges == _calculate_surcharges(data)
         IN  IF surcharges # <<>> THEN Null
             ELSE [base |-> base_price, surcharges |-> surcharges,
                   total |-> base_price + FieldSum(surcharges, "amount"),
                   items |-> _create_line_items(base_price, surcharges),
                   fallback |-> FALSE]

\* QuoteItem(...) followed by item.calculate_total()
QuoteItem(item_data) ==
    [item_type |-> item_data.type, quantity |-> item_data.quantity,
     unit_price |-> item_data.unit_price,
     total_price |-> item_data.quantity * item_data.unit_price]

\* POST /quotes without an idempotency key, with the amounts of the quote it stores
create_quote_priced(data) ==
    /\ \E r \in QueryResults(Upper(data.service), LaneOf(data)) :
         LET l == _get_pricing_rules(cache, Upper(data.service), LaneOf(data), r)
             pricing_result == price_of(data, l.result)
             quote == issue(Quote(QuoteIds[Len(quotes) + 1], CustomerOf(data),
                                  now + QuoteValidity))
         IN  /\ lookup' = LookupRecord(Upper(data.service), LaneOf(data), l)
             /\ written' = written \ {<<Upper(data.service), LaneOf(data)>>}
             /\ cache' = l.cache
             /\ IF pricing_result = Null
                THEN /\ resp' = [op |-> "create_quote", status |-> 500]
                     /\ UNCHANGED <<quotes, published>>
                ELSE /\ Len(quotes) < MaxQuotes
                     /\ quotes' = Append(quotes, quote)
                     /\ published' = publish(published, "quote.issued", quote.quote_id)
                     /\ resp' = [op |-> "create_quote", status |-> 201,
                                 body |-> to_dict(quote),
                                 base_amount |-> pricing_result.base,
                                 total_amount |-> pricing_result.total,
                                 fallback |-> pricing_result.fallback,
                                 items |-> [i \in 1..Len(pricing_result.items) |->
                                               QuoteItem(pricing_result.items[i])]]
    /\ UNCHANGED <<now, clockSteps, authEnabled, rules, posts>>
    /\ UNCHANGED notQuotation

\* quotes priced from the rules, rules added by an administrator
NextPriced ==
    \/ \E b \in PricedBodies : create_quote_priced(b)
    \/ \E t \in {"admin1"}, svc \in {"LCL", "AIR"}, lane \in Lanes :
          create_pricing_rule(t, svc, lane)

SpecPriced == InitQuote /\ [][NextPriced]_vars

\* ------------------------------------ shared: event consumer, thread by thread
MaxLoops == 2
MaxHandled == 2

\* a thread start() has just created, about to test self._running
NewLoop == [pc |-> "check", from |-> 0, n |-> 0]

\* the threads that hold a polled batch and are handing it to the handlers
Processing == {t \in 1..Len(loops) : loops[t].pc = "batch"}

\* offsets of the batch of n messages from offset from that _process_message
\* reports as processed
Processed(from, n, hs) ==
    {o \in from..(from + n - 1) : _process_message(EventLog[o + 1], hs[o - from + 1])}

\* the offset left committed by the commits of a batch; none is made when no
\* message succeeded or when the commits do not reach the group
CommittedBy(from, n, hs, commit_ok) ==
    IF Processed(from, n, hs) = {} \/ ~commit_ok THEN committed
    ELSE Highest(Processed(from, n, hs)) + 1

ThreadFrame ==
    /\ UNCHANGED <<now, clockSteps, authEnabled, cache, published, resp>>
    /\ UNCHANGED <<qVars, bkVars, ntVars, ctVars, ldVars, vdVars, epVars, dcVars, dbVars,
                   pdVars, rqVars, dlVars>>

\* EventConsumer.start, the test "if self._running"
start_check(c) ==
    /\ callers[c] = "idle"
    /\ callers' = [callers EXCEPT ![c] = IF running THEN "idle" ELSE "start_set"]
    /\ stopReturned' = FALSE
    /\ UNCHANGED <<loops, threadRef, consumerOpen>>
    /\ UNCHANGED evVars
    /\ ThreadFrame

\* EventConsumer.start, after the test: set _running, create and start the thread
start_set(c) ==
    /\ callers[c] = "start_set"
    /\ Len(loops) < MaxLoops
    /\ running' = TRUE
    /\ loops' = Append(loops, NewLoop)
    /\ threadRef' = Len(loops) + 1
    /\ callers' = [callers EXCEPT ![c] = "idle"]
    /\ UNCHANGED <<consumerOpen, stopReturned>>
    /\ UNCHANGED <<position, committed, failed, delivered>>
    /\ ThreadFrame

\* EventConsumer.stop up to the join: clear _running
stop_begin(c) ==
    /\ callers[c] = "idle"
    /\ running' = FALSE
    /\ callers' = [callers EXCEPT ![c] = "stop_join"]
    /\ UNCHANGED <<loops, threadRef, consumerOpen, stopReturned>>
    /\ UNCHANGED <<position, committed, failed, delivered>>
    /\ ThreadFrame

\* EventConsumer.stop from the join on: self._thread.join(timeout=10) returns because
\* the thread has ended, or, while the thread is still handing a batch to the
\* handlers, because the ten seconds are over; then the consumer is closed and
\* stop() returns
stop_finish(c, timed_out) ==
    /\ callers[c] = "stop_join"
    /\ IF threadRef = 0 THEN ~timed_out
       ELSE IF timed_out THEN loops[threadRef].pc = "batch"
       ELSE loops[threadRef].pc = "exited"
    /\ consumerOpen' = FALSE
    /\ stopReturned' = TRUE
    /\ callers' = [callers EXCEPT ![c] = "idle"]
    /\ UNCHANGED <<loops, threadRef>>
    /\ UNCHANGED evVars
    /\ ThreadFrame

\* _consume_loop of thread t: the test "while self._running" and the poll.  The
\* property self.consumer creates a consumer when there is none; a new consumer of
\* the group resumes at the committed offset
loop_poll(t, n) ==
    /\ t \in 1..Len(loops)
    /\ loops[t].pc = "check"
    /\ IF ~running
       THEN /\ loops' = [loops EXCEPT ![t].pc = "exited"]
            /\ UNCHANGED <<position, consumerOpen>>
       ELSE LET from == IF consumerOpen THEN position ELSE committed
            IN  /\ n \in 1..MaxPollRecords
                /\ from + n <= Len(EventLog)
                /\ consumerOpen' = TRUE
                /\ position' = from + n
                /\ loops' = [loops EXCEPT ![t] = [pc |-> "batch", from |-> from, n |-> n]]
    /\ UNCHANGED <<running, committed, failed, delivered>>
    /\ UNCHANGED <<callers, threadRef, stopReturned>>
    /\ ThreadFrame

\* _consume_loop of thread t: the polled batch goes through _process_message message
\* by message, offset + 1 is committed after each success.  When stop() has closed
\* the consumer in between, self.consumer creates another one for the commit, and
\* whether the group takes a commit from it is open
loop_process(t, hs, commit_ok) ==
    /\ t \in 1..Len(loops)
    /\ loops[t].pc = "batch"
    /\ consumerOpen => commit_ok
    /\ Len(delivered) + loops[t].n <= MaxHandled
    /\ LET from == loops[t].from
           n == loops[t].n
           done == Processed(from, n, hs)
       IN  /\ committed' = CommittedBy(from, n, hs, commit_ok)
           /\ failed' = (failed \ done) \cup ((from..(from + n - 1)) \ done)
           /\ delivered' = delivered \o
                  [i \in 1..n |-> [offset |-> from + i - 1,
                                   ok |-> (from + i - 1) \in done,
                                   committed |-> CommittedBy(from, i, hs, commit_ok)]]
           /\ consumerOpen' = (consumerOpen \/ done # {})
           /\ position' = IF consumerOpen \/ done = {} THEN position
                          ELSE CommittedBy(from, n, hs, commit_ok)
    /\ loops' = [loops EXCEPT ![t].pc = "check"]
    /\ UNCHANGED <<running, callers, threadRef, stopReturned>>
    /\ ThreadFrame

NextThreads ==
    \/ \E c \in Callers : start_check(c)
    \/ \E c \in Callers : start_set(c)
    \/ \E c \in Callers : stop_begin(c)
    \/ \E c \in Callers, timed_out \in BOOLEAN : stop_finish(c, timed_out)
    \/ \E t \in 1..MaxLoops, n \in 1..MaxPollRecords : loop_poll(t, n)
    \/ \E t \in 1..MaxLoops, hs \in [1..MaxPollRecords -> HandlerOutcomes],
          commit_ok \in BOOLEAN : loop_process(t, hs, commit_ok)

SpecThreads == InitEvents /\ [][NextThreads]_vars

\* ------------------------------------------------------------------ claims
\* two requests of the history: same key, same body, the body complete, and less
\* than the idempotency window apart
SamePost(i, j) ==
    /\ i < j
    /\ posts[i].key = posts[j].key
    /\ posts[i].body = posts[j].body
    /\ RequiredFields \subseteq DOMAIN posts[i].body
    /\ posts[j].time - posts[i].time < IdemTTL

\* request i is the first one of the history that carries its key
FirstWithKey(i) == \A k \in 1..(i - 1) : posts[k].key # posts[i].key

C3_NoLeak ==
    (resp.op = "get_quote" /\ resp.status = 200 /\ resp.body.customer_id # None) =>
        LET u == authenticate_request(resp.token)
        IN  /\ u # None
            /\ (u = resp.body.customer_id \/ has_any_role(u, PrivilegedRoles))

\* an accept() that went through, by the model method or by the route
Accepted ==
    \/ resp.op = "Quote.accept" /\ resp.status = "ok"
    \/ resp.op = "accept_quote" /\ resp.status = 200

\* C5: a quote is moved to ACCEPTED only from ISSUED and only while the time is
\* not past valid_until, by accept() as by PUT /quotes/<id>/accept.
C5_OnlyIssued ==
    Accepted =>
        /\ resp.from = "ISSUED"
        /\ resp.body.accepted_at <= resp.body.valid_until

\* C7: after POST /pricing-rules has stored a rule for (service, lane), the next
\* pricing lookup for that service and lane reads the store, not the cache.
C7_ReadsStore ==
    lookup.afterWrite => lookup.source = "store"

\* C2: while the message at offset k of the partition has failed and has not been
\* processed successfully since, no offset greater than k is committed.
C2_NoCommitPastFailure ==
    \A k \in failed : committed <= k

\* C4: once a booking has been confirmed, a later confirm_booking for it fails with
\* Conflict, creates no shipment, allocates no container and publishes no event.
C4_ConfirmOnce ==
    (resp.op = "confirm_booking" /\ resp.before.confirmed) =>
        /\ resp.status = "Conflict"
        /\ Len(shipments) = resp.before.shipments
        /\ allocated = resp.before.allocated
        /\ Len(published) = resp.before.published

\* the user who created booking id, None if there is no such booking
CreatorOf(id) ==
    IF \E i \in 1..Len(bookingsMade) : bookingsMade[i].id = id
    THEN bookingsMade[CHOOSE i \in 1..Len(bookingsMade) : bookingsMade[i].id = id].created_by
    ELSE None

\* C6: get_booking returns a booking only to the user who created it or to an
\* administrator; anyone else gets nothing, as for a booking that does not exist.
C6_OwnerOrAdmin ==
    (resp.op = "get_booking" /\ resp.result # Null) =>
        (resp.user = CreatorOf(resp.booking_id) \/ has_role(resp.user, "admin"))

\* the channels of the attempts a create_notification recorded, in order
AttemptChannels == [i \in 1..Len(resp.attempts) |-> resp.attempts[i].channel]

\* C8: create_notification records one attempt for each requested channel that the
\* recipient's preferences (channel flag and category flag) leave enabled and none
\* for the others, or exactly one IN_APP attempt when every channel is filtered out.
C8_Narrowing ==
    (resp.op = "create_notification" /\ resp.status = "ok") =>
        AttemptChannels = FinalChannels(wanted[resp.recipient], resp.type, resp.requested)

\* C9: the amendments created on one contract are numbered 1, 2, 3, ... in creation
\* order: the i-th amendment returned for a contract carries the number i.
C9_Sequential ==
    \A i \in 1..Len(amendmentLog) :
        amendmentLog[i].amendment_number =
            Cardinality({j \in 1..i : amendmentLog[j].contract_id = amendmentLog[i].contract_id})

\* C10: a lead whose status is CONVERTED, LOST or DISQUALIFIED keeps that status
\* through update_lead, convert_lead_to_customer and mark_lead_as_lost.
C10_TerminalStays ==
    (resp.op \in {"update_lead", "convert_lead_to_customer", "mark_lead_as_lost"}
       /\ resp.before \in TerminalLeadStatus) =>
        resp.after = resp.before

\* the status get_contract reports for contract id, None if it finds no contract
ContractStatusOf(id) ==
    LET c == get_contract(cache, id).result IN IF c = Null THEN None ELSE c.status

\* C12: activate_contract succeeds only from DRAFT or PENDING_APPROVAL and
\* terminate_contract only from ACTIVE, so that a contract that is TERMINATED is
\* never ACTIVE again: no step takes a contract from TERMINATED to ACTIVE.
C12_TerminatedStays ==
    [][\A id \in RequestContractIds :
          ContractStatusOf(id) = "TERMINATED" => ContractStatusOf(id)' # "ACTIVE"]_vars

\* the number of convert_lead_to_customer calls on lead id that succeeded: each
\* publishes one lead.converted event
Conversions(id) ==
    Cardinality({i \in 1..Len(published) :
                    published[i].type = "lead.converted" /\ published[i].data = id})

\* C18: of the convert_lead_to_customer calls made on one lead at most one succeeds
\* and at most one customer is created (update_lead not being used on the lead in
\* between).
C18_ConvertOnce ==
    (\A i \in 1..Len(published) : published[i].type # "lead.updated") =>
        \A id \in RequestLeadIds : Conversions(id) <= 1

\* C11: a vendor whose status is REJECTED keeps it through every VendorService
\* operation, update_vendor_status in particular.
C11_RejectedStays ==
    (resp.op = "update_vendor_status" /\ resp.before = "REJECTED") =>
        resp.after = "REJECTED"

\* the ratings recorded for vendor id, in order
RatingsOf(id) == SelectSeq(ratingLog, LAMBDA r : r.vendor_id = id)

RECURSIVE SumOf(_)
SumOf(rs) == IF rs = <<>> THEN 0 ELSE rs[1].overall_rating + SumOf(Tail(rs))

\* C19: on a vendor created with no ratings, after each accepted create_vendor_rating
\* total_ratings is the number of ratings recorded for it and average_rating is
\* their arithmetic mean.
C19_RunningMean ==
    \A id \in {VendorIds[i] : i \in 1..MaxVendors} :
        \A n \in 1..Len(RatingsOf(id)) :
            LET r == RatingsOf(id)[n]
            IN  /\ r.total_ratings = n
                /\ r.average_rating.num * n = SumOf(SubSeq(RatingsOf(id), 1, n)) * r.average_rating.den

\* C19 witness: ratings 4, 5, 3 recorded in that order on a created vendor, the
\* running averages being 4.0, 4.5, 4.0
C19_Witness ==
    \E id \in {VendorIds[i] : i \in 1..MaxVendors} :
        /\ Len(RatingsOf(id)) = 3
        /\ [i \in 1..3 |-> RatingsOf(id)[i].overall_rating] = <<4, 5, 3>>
        /\ [i \in 1..3 |-> RatingsOf(id)[i].average_rating] =
              <<Quotient(4, 1), Quotient(9, 2), Quotient(4, 1)>>
        /\ RatingsOf(id)[3].total_ratings = 3

\* the events the last add_tracking_event published
JustPublished == SubSeq(published, resp.before + 1, Len(published))

JustCreated == SubSeq(created, resp.before + 1, Len(created))

\* C13: for an event type that has no notification mapping of its own, process_event
\* creates one generic notification for the event's implied recipient, requested on
\* IN_APP at NORMAL priority.
C13_GenericFallback ==
    (resp.op = "process_event"
       /\ resp.event_type \in {"booking.created", "lead.converted"}
       /\ ImpliedRecipient(resp.event_data) # None) =>
        /\ Len(JustCreated) = 1
        /\ JustCreated[1].recipient_id = ImpliedRecipient(resp.event_data)
        /\ JustCreated[1].requested = <<"IN_APP">>
        /\ JustCreated[1].priority = "NORMAL"

\* C14: processing a contract.expiring, contract.terminated or vendor.status_changed
\* event that names its recipient (the vendor, and the contract number for the
\* contract events) creates a notification for that recipient.
C14_ContractAndVendorEvents ==
    (resp.op = "process_event"
       /\ resp.event_type \in {"contract.expiring", "contract.terminated",
                               "vendor.status_changed"}
       /\ resp.event_data.vendor_id # None
       /\ resp.event_data.contract_number # None) =>
        \E i \in 1..Len(JustCreated) : JustCreated[i].recipient_id = resp.event_data.vendor_id

\* C15: processing a shipment.delivered event creates two notifications for the
\* customer: a HIGH one requested on email, sms, in_app, and a LOW feedback request
\* on email, in_app scheduled 24 hours after the processing.
C15_DeliveredAndFeedback ==
    (resp.op = "process_event"
       /\ resp.event_type = "shipment.delivered"
       /\ resp.event_data.customer_id # None
       /\ resp.event_data.shipment_number # None) =>
        /\ Len(JustCreated) = 2
        /\ \A i \in 1..2 : JustCreated[i].recipient_id = resp.event_data.customer_id
        /\ JustCreated[1].priority = "HIGH"
        /\ JustCreated[1].requested = <<"EMAIL", "SMS", "IN_APP">>
        /\ JustCreated[2].priority = "LOW"
        /\ JustCreated[2].requested = <<"EMAIL", "IN_APP">>
        /\ JustCreated[2].scheduled_at = now + 24 * 3600

\* C16: process_event raises nothing to its caller, whatever its handlers raise.
C16_NothingPropagates ==
    resp.op = "process_event" => resp.raised = None

\* C16 witness: a handler raised, the error was caught and logged, and an event
\* delivered after it was processed and made its notifications
C16_Witness ==
    /\ errorsLogged > 0
    /\ \E i \in 1..Len(created) : created[i].type = "SHIPMENT_DELIVERED"
    /\ resp.op = "process_event"
    /\ resp.event_type = "quote.created"
    /\ resp.error = None
    /\ resp.raised = None
    /\ Len(JustCreated) = 1

\* C20: send_bulk_notifications for a template that exists, with complete template
\* data, goes through every recipient: it returns a result with
\* successful + failed = number of recipients and one error entry per failure.
C20_BulkCompletes ==
    (resp.op = "send_bulk_notifications"
       /\ TemplateService_load_template(resp.template_id) # Null
       /\ resp.complete) =>
        /\ resp.status = "ok"
        /\ resp.results.successful + resp.results.failed = Len(resp.recipients)
        /\ Len(resp.results.errors) = resp.results.failed

\* C21: mark_as_read and delete_notification called by a user who is not the
\* notification's recipient fail with InvalidInput (answered 400) and leave the
\* notification's status and existence unchanged.
C21_OwnerOnly ==
    (resp.op \in {"mark_notification_read", "delete_notification"}
       /\ resp.before # Null
       /\ resp.before.recipient_id # resp.user) =>
        /\ resp.status = 400
        /\ resp.after = resp.before

\* a quote that is not valid: past valid_until, or neither ISSUED nor DRAFT
NotValid(q) == now > q.valid_until \/ q.status \notin {"ISSUED", "DRAFT"}

C23_IntegrityChecked ==
    \A i \in 1..Len(uploaded) :
        (resp.op = "download_document" /\ resp.document_id = uploaded[i].id) =>
            /\ sha256(objects[uploaded[i].storage_path]) # uploaded[i].checksum =>
                    resp.error = "BadRequest"
            /\ resp.error = None => sha256(resp.body) = uploaded[i].checksum

\* the number of times call c is in a sequence of session calls
Count(seq, c) == Cardinality({k \in 1..Len(seq) : seq[k] = c})

C25_BoundedRetry ==
    \A i \in 1..Len(retried) :
        LET r == retried[i] IN
        /\ r.attempts \in 1..3
        /\ \A k \in 1..(r.attempts - 1) :
              r.outcomes[k] \in {"DisconnectionError", "OperationalError"}
        /\ Len(r.slept) = r.attempts - 1
        /\ \A k \in 1..Len(r.slept) : r.slept[k] = 2 ^ (k - 1)
        /\ r.raised = (IF r.outcomes[r.attempts] = "ok" THEN None ELSE r.outcomes[r.attempts])
        /\ (r.attempts < 3 /\ r.raised # None) =>
              r.raised \notin {"DisconnectionError", "OperationalError"}

\* C25 witness: a call failed transiently three times and raised the last
\* exception after waiting 1 and 2 seconds; another succeeded at its second attempt
C25_Witness ==
    /\ \E i \in 1..Len(retried) :
          /\ retried[i].attempts = 3
          /\ retried[i].slept = <<1, 2>>
          /\ retried[i].outcomes =
                 <<"OperationalError", "OperationalError", "DisconnectionError">>
          /\ retried[i].raised = "DisconnectionError"
    /\ \E i \in 1..Len(retried) :
          /\ retried[i].attempts = 2
          /\ retried[i].raised = None

\* C26: EventProducer.publish returns False on any publish failure (producer
\* unavailable, broker error, acknowledgment timeout) and never raises.
C26_NeverRaises ==
    resp.op = "publish" =>
        /\ resp.raised = None
        /\ resp.failure # None => resp.returned = FALSE

\* booking id is stored with status CONFIRMED
StoredConfirmed(id) ==
    /\ Truthy(cache_get(cache, booking_key(id)))
    /\ cache_get(cache, booking_key(id)).status = "CONFIRMED"

\* a shipment created from booking id is stored
ShipmentStored(id) ==
    \E i \in 1..Len(ShipmentIds) :
        /\ Truthy(cache_get(cache, shipment_key(ShipmentIds[i])))
        /\ cache_get(cache, shipment_key(ShipmentIds[i])).booking_id = id

\* C27: whenever no confirm_booking call is under way, a booking is stored as
\* CONFIRMED if and only if the shipment created from it is stored, also after a
\* call in which something failed part-way.
C27_Atomic ==
    (\A p \in Procs : calls[p].pc = "idle") =>
        \A id \in RequestBookingIds : StoredConfirmed(id) <=> ShipmentStored(id)

\* C29: however the confirm_booking calls for one PENDING booking interleave,
\* one shipment at most is created for the booking (one call succeeds, the others
\* fail with Conflict).
C29_OneShipment ==
    \A id \in RequestBookingIds :
        Cardinality({i \in 1..Len(shipments) : shipments[i].booking_id = id}) <= 1

\* the requests answered with a quote that carried key k
Answered(k) == {i \in 1..Len(posts) : posts[i].key = k /\ posts[i].status \in {200, 201}}

\* C28: however two POST /quotes requests with the same Idempotency-Key interleave,
\* one quote at most is stored for the key and all the answers carry the same
\* quote_id.
C28_OneQuotePerKey ==
    \A k \in RetryKeys :
        /\ Cardinality({i \in Answered(k) : posts[i].stored = 1}) <= 1
        /\ \A i, j \in Answered(k) : posts[i].quote_id = posts[j].quote_id

\* the shipment an accepted add_tracking_event has just stored
StoredShipment == cache_get(cache, shipment_key(resp.shipment_id))

\* an add_tracking_event has been accepted and what it stored is still there
EventAdded ==
    /\ resp.op = "add_tracking_event"
    /\ resp.status = "ok"
    /\ Truthy(StoredShipment)

\* C30: after an event has been added, the shipment's status is the status of that
\* event, the last appended one, whatever its event_time and those of the other
\* events are.
C30_LastAppended ==
    EventAdded => StoredShipment.status = resp.event_status

\* an event dated before the shipment's other events has been added: the status is
\* its status and not that of the event that is last in time
C30_Witness ==
    /\ EventAdded
    /\ LET events == StoredShipment.tracking_events
       IN  /\ events[1].event_time < events[2].event_time
           /\ events[1].status = resp.event_status
           /\ events[Len(events)].status # resp.event_status
           /\ StoredShipment.status = resp.event_status

\* C31: a GET /quotes/<id> that starts after PUT /quotes/<id>/accept has returned
\* success reports status ACCEPTED, also when another GET of the quote was under
\* way while the accept ran.
C31_ReadsAccepted ==
    (resp.op = "get_quote" /\ resp.status = 200 /\ resp.after) =>
        resp.body.status = "ACCEPTED"

\* C32: every shipment.status_changed event that add_tracking_event publishes has
\* as old_status the status the shipment had before the event was appended (that of
\* the shipment as loaded) and as new_status the status of the appended event.
C32_OldAndNew ==
    (resp.op = "add_tracking_event" /\ resp.status = "ok") =>
        \A i \in 1..Len(JustPublished) :
            JustPublished[i].type = "shipment.status_changed" =>
                /\ JustPublished[i].data.old_status = _load_shipment(resp.shipment_id).status
                /\ JustPublished[i].data.new_status = resp.event_status

\* C33: processing a booking.confirmed or shipment.status_changed event published
\* by the booking service creates a notification: the event carries the fields the
\* EventProcessor asks of its type (for booking.confirmed, the notification goes to
\* the booking's customer).
C33_CustomerNotified ==
    (resp.op = "process_event" /\ resp.event_type \in NotifiedTypes) =>
        /\ JustCreated # <<>>
        /\ resp.event_type = "booking.confirmed" =>
              \E i \in 1..Len(JustCreated) :
                  JustCreated[i].recipient_id = resp.event_data.customer_id

\* the place of a status on the line PENDING, SENT, DELIVERED, READ
Rank(status) ==
    CASE status = "PENDING" -> 0
      [] status = "SENT" -> 1
      [] status = "DELIVERED" -> 2
      [] OTHER -> 3

\* C34: a call of mark_as_sent, mark_as_delivered, mark_as_read or mark_as_failed
\* moves a notification's status forward along PENDING, SENT, DELIVERED, READ or
\* to FAILED, never back: a READ notification does not become DELIVERED or SENT
\* again, a DELIVERED one does not become SENT again.
C34_Forward ==
    [][(/\ noteObj # Null
        /\ noteObj' # Null
        /\ noteObj.status \in {"PENDING", "SENT", "DELIVERED", "READ"}
        /\ noteObj'.status \in {"PENDING", "SENT", "DELIVERED", "READ"}) =>
           Rank(noteObj'.status) >= Rank(noteObj.status)]_vars

\* C35: for every channel, the delivery attempts recorded on a notification for
\* the channel number at most max_attempts (3).
C35_AttemptsBounded ==
    noteObj # Null =>
        \A ch \in NotificationChannel : Cardinality(AttemptsOf(noteObj, ch)) <= max_attempts

\* C36: after deliver_notification has returned overall_success false the
\* notification's status is FAILED, and after it has returned overall_success true
\* the status is not FAILED.
C36_StatusFollowsResult ==
    resp.op = "deliver_notification" =>
        IF resp.overall_success THEN noteObj.status # "FAILED"
                                ELSE noteObj.status = "FAILED"

\* the contracts stored
StoredContracts ==
    {cache_get(cache, contract_key(id)) : id \in RequestContractIds} \ {Null}

\* C37: after any sequence of create_contract, update_contract and renew_contract
\* calls, every stored contract that has an end date has a start date, and its end
\* date is strictly after its start date.
C37_EndAfterStart ==
    \A c \in StoredContracts :
        c.end_date # NoTime => (c.start_date # NoTime /\ c.end_date > c.start_date)

C39_ItemsSumToTotal ==
    (resp.op = "create_quote" /\ resp.status = 201 /\ "items" \in DOMAIN resp) =>
        FieldSum(resp.items, "total_price") = resp.total_amount

\* C40: across any interleaving of start() and stop() calls on an EventConsumer, at
\* most one consume loop is processing messages at any time, and once stop() has
\* returned no handler is invoked and no offset is committed until the next start().
C40_OneLoopAndQuiet ==
    /\ [](Cardinality(Processing) <= 1)
    /\ [][(stopReturned /\ stopReturned') =>
             (delivered' = delivered /\ committed' = committed)]_vars

\* the first half of C40 alone
C40_OneLoop == Cardinality(Processing) <= 1

\* the second half of C40 alone
C40_QuietAfterStop ==
    [][(stopReturned /\ stopReturned') =>
          (delivered' = delivered /\ committed' = committed)]_vars

====
